---- MODULE Spec2Model ----
(***************************************************************************)
(* A model of the mongoose-rs document-mapping layer: the lazily           *)
(* initialised connection handle (connection.rs, database.rs), the update  *)
(* normaliser and pipeline builder (model.rs) and the repository           *)
(* operations of the Model trait over a backing collection.                *)
(*                                                                         *)
(* BSON values are tagged records [k |-> kind, v |-> payload]; a Document  *)
(* is a function from keys to tagged values (bson::Document equality is    *)
(* insensitive to key order).  A key is the sequence of the tokens of its  *)
(* text, where "$" and "." are always tokens of their own, so that         *)
(* "$set" is <<"$", "set">> and "address.city" is                          *)
(* <<"address", ".", "city">>.                                             *)
(***************************************************************************)
EXTENDS Integers, Sequences, FiniteSets, TLC

VARIABLES collection, now, call, pool, pc, got, catalog

vars == <<collection, now, call, pool, pc, got, catalog>>

----------------------------------------------------------------------------
(* Bounds of the model *)

MaxTime == 2
MaxKeys == 3
MaxStages == 3
NumCallers == 3
MaxDocs == 2
MaxAge == 1
TicksPerMilli == 2

----------------------------------------------------------------------------
(* BSON values *)

BInt(n) == [k |-> "int", v |-> n]
BStr(s) == [k |-> "str", v |-> s]
BDate(t) == [k |-> "date", v |-> t]
BDoc(d) == [k |-> "doc", v |-> d]
BArr(a) == [k |-> "arr", v |-> a]
\* bson::DateTime::from_chrono: a BSON date counts whole milliseconds, the
\* clock of chrono counts finer ticks
FromChrono(t) == BDate(t \div TicksPerMilli)

\* bson::DateTime::to_chrono
ToChrono(date) == date.v * TicksPerMilli

Null == [k |-> "null", v |-> 0]
None == [k |-> "none", v |-> 0]

EmptyDoc == [x \in {} |-> Null]

\* Document::insert: sets key to val, replacing a value already there
Insert(d, key, val) == [x \in (DOMAIN d) \cup {key} |-> IF x = key THEN val ELSE d[x]]

\* Document::get: the value under key, or None
Get(d, key) == IF key \in DOMAIN d THEN d[key] ELSE None

\* str::starts_with over the tokens of a key
StartsWith(key, c) == Len(key) > 0 /\ key[1] = c

K_set == <<"$", "set">>
K_inc == <<"$", "inc">>
K_push == <<"$", "push">>
K_id == <<"_id">>
K_username == <<"username">>
K_age == <<"age">>
K_updated_at == <<"updated_at">>
K_address == <<"address">>
K_city_field == <<"city">>

----------------------------------------------------------------------------
(* Update normaliser: Model::normalize_updates *)

\* a plausible slip: the caller's $set bucket is taken as the starting bucket
NormalizeStepKeepsSet(acc, updates, key) ==
    LET val == Get(updates, key) IN
    IF val = None THEN acc
    ELSE IF key = K_set
         THEN IF val.k = "doc"
              THEN <<[x \in (DOMAIN acc[1]) \cup (DOMAIN val.v) |->
                        IF x \in DOMAIN acc[1] THEN acc[1][x] ELSE val.v[x]], acc[2]>>
              ELSE acc
         ELSE IF StartsWith(key, "$")
              THEN <<acc[1], Insert(acc[2], key, val)>>
              ELSE <<Insert(acc[1], key, val), acc[2]>>

\* a plausible slip: every key is routed to the replacement bucket
NormalizeStepAllSet(acc, updates, key) ==
    LET val == Get(updates, key) IN
    IF val = None \/ key = K_set THEN acc
    ELSE <<Insert(acc[1], key, val), acc[2]>>

\* the closure of the fold: acc[1] is set_updates, acc[2] is document_updates
NormalizeStep(acc, updates, key) ==
    LET val == Get(updates, key) IN
    IF val = None \/ key = K_set
    THEN acc
    ELSE IF StartsWith(key, "$")
         THEN <<acc[1], Insert(acc[2], key, val)>>
         ELSE <<Insert(acc[1], key, val), acc[2]>>

RECURSIVE NormalizeFold(_, _, _)
NormalizeFold(updates, keys, acc) ==
    IF keys = {} THEN acc
    ELSE LET key == CHOOSE x \in keys : TRUE IN
         NormalizeFold(updates, keys \ {key}, NormalizeStep(acc, updates, key))

\* a plausible slip: the timestamp is only a default, a caller's value wins
StampIfAbsent(set_updates, t) ==
    IF K_updated_at \in DOMAIN set_updates THEN set_updates
    ELSE Insert(set_updates, K_updated_at, FromChrono(t))

\* set_updates.insert("updated_at", chrono::Utc::now())
Stamp(set_updates, t) == Insert(set_updates, K_updated_at, FromChrono(t))

normalize_updates(updates, t) ==
    LET acc == NormalizeFold(updates, DOMAIN updates, <<EmptyDoc, EmptyDoc>>)
        set_updates == Stamp(acc[1], t)
    IN Insert(acc[2], K_set, BDoc(set_updates))

----------------------------------------------------------------------------
(* Pipeline builder: Model::create_pipeline *)

K_match == <<"$", "match">>
K_lookup == <<"$", "lookup">>
K_project == <<"$", "project">>
K_unwind == <<"$", "unwind">>
K_addFields == <<"$", "addFields">>
K_limit == <<"$", "limit">>
K_sort == <<"$", "sort">>
K_user == <<"user">>
K_from == <<"from">>
K_localField == <<"localField">>
K_foreignField == <<"foreignField">>
K_as == <<"as">>
K_path == <<"path">>

\* doc! { key: val }
Doc1(key, val) == Insert(EmptyDoc, key, val)

\* PipelineStage variants: [kind |-> variant, of |-> payload]
Match(d) == [kind |-> "Match", of |-> d]
Lookup(from, local_field, foreign_field, as_field) ==
    [kind |-> "Lookup",
     of |-> [from |-> from, local_field |-> local_field,
             foreign_field |-> foreign_field, as_field |-> as_field]]
Project(d) == [kind |-> "Project", of |-> d]
Unwind(path) == [kind |-> "Unwind", of |-> path]
AddFields(d) == [kind |-> "AddFields", of |-> d]
Limit(n) == [kind |-> "Limit", of |-> n]
Sort(d) == [kind |-> "Sort", of |-> d]

\* the closure of the map: one raw stage document per typed stage
StageDoc(stage) ==
    CASE stage.kind = "Match" -> Doc1(K_match, BDoc(stage.of))
      [] stage.kind = "Lookup" ->
            Doc1(K_lookup,
                 BDoc(Insert(Insert(Insert(Insert(EmptyDoc,
                      K_from, BStr(stage.of.from)),
                      K_localField, BStr(stage.of.local_field)),
                      K_foreignField, BStr(stage.of.foreign_field)),
                      K_as, BStr(stage.of.as_field))))
      [] stage.kind = "Project" -> Doc1(K_project, BDoc(stage.of))
      [] stage.kind = "Unwind" -> Doc1(K_unwind, BDoc(Doc1(K_path, BStr(stage.of))))
      [] stage.kind = "AddFields" -> Doc1(K_addFields, BDoc(stage.of))
      [] stage.kind = "Limit" -> Doc1(K_limit, BInt(stage.of))
      [] stage.kind = "Sort" -> Doc1(K_sort, BDoc(stage.of))

\* a plausible slip: a look-behind optimisation that merges repeated stages
RECURSIVE create_pipeline_merging(_)
create_pipeline_merging(pipeline) ==
    IF pipeline = <<>> THEN <<>>
    ELSE LET rest == create_pipeline_merging(Tail(pipeline)) IN
         IF Len(pipeline) > 1 /\ pipeline[1] = pipeline[2]
         THEN rest
         ELSE <<StageDoc(Head(pipeline))>> \o rest

\* pipeline.iter().map(..).collect()
create_pipeline(pipeline) == [n \in 1..Len(pipeline) |-> StageDoc(pipeline[n])]

----------------------------------------------------------------------------
(* Connection handle: POOL and connect (connection.rs), POOL (database.rs) *)

Callers == 1..NumCallers

\* the database beside the documents of the record type: its views and the
\* indexes of the collection
EmptyCatalog == [views |-> {}, indexes |-> {}, others |-> <<>>]

\* the handle once some caller has initialised it
ReadyPool ==
    [impl |-> "Lazy", state |-> "ready", value |-> 1, runs |-> 1, made |-> 1, logged |-> "none"]

\* a plausible slip: an unsynchronised check, true until the value is stored
PoolMustInitRacy(p) == p.state # "ready"

\* Lazy / AsyncOnce: the initialiser is started by the caller that finds the cell empty
PoolMustInit(p) == p.state = "uninit"

\* POOL.get() / deref of POOL by a caller of Model::client, database, collection
PoolGet(c) ==
    /\ pool.state # "exited"
    /\ pc[c] = "idle"
    /\ IF pool.state = "ready"
       THEN /\ got' = [got EXCEPT ![c] = @ \cup {pool.value}]
            /\ pc' = [pc EXCEPT ![c] = "done"]
            /\ UNCHANGED pool
       ELSE IF PoolMustInit(pool)
            THEN /\ pool' = [pool EXCEPT !.state = "running", !.runs = @ + 1]
                 /\ pc' = [pc EXCEPT ![c] = "parse"]
                 /\ UNCHANGED got
            ELSE /\ pc' = [pc EXCEPT ![c] = "blocked"]
                 /\ UNCHANGED <<pool, got>>
    /\ UNCHANGED <<collection, now, call, catalog>>

\* a plausible slip: the failure is logged and handed back as a recoverable
\* error, the cell being left empty for the next caller
FailedStepRecoverable(p, at) == [p EXCEPT !.state = "uninit", !.logged = at]

\* the map_or_else error arm of a step of connect: tracing::error!(..) and
\* std::process::exit(1)
FailedStep(p, at) == [p EXCEPT !.state = "exited", !.logged = at]

\* one fallible step of connect
ConnectStep(c, at, next, ok) ==
    /\ pool.state # "exited"
    /\ pc[c] = at
    /\ IF ok
       THEN /\ pc' = [pc EXCEPT ![c] = next]
            /\ UNCHANGED pool
       ELSE /\ pool' = FailedStep(pool, at)
            /\ UNCHANGED pc
    /\ UNCHANGED <<collection, now, call, got, catalog>>

\* ClientOptions::parse(mongo_uri)
ParseOptions(c, ok) == ConnectStep(c, "parse", "build", ok)

\* Client::with_options(client_options)
BuildClient(c, ok) == ConnectStep(c, "build", "resolve", ok)

\* client.default_database()
ResolveDatabase(c, ok) ==
    ConnectStep(c, "resolve", IF pool.impl = "AsyncOnce" THEN "migrate" ELSE "publish", ok)

\* a plausible slip: the migration asks the shared handle for the database
\* while the handle is still being built, and waits for it
MigrateIndexesThroughPool(c) ==
    /\ pool.state # "exited"
    /\ pc[c] = "migrate"
    /\ pc' = [pc EXCEPT ![c] = "blocked"]
    /\ UNCHANGED <<collection, now, call, pool, got, catalog>>

\* User::create_indexes(&default_database): uses the database, not POOL;
\* a failure is logged and initialisation goes on
MigrateIndexes(c) ==
    /\ pool.state # "exited"
    /\ pc[c] = "migrate"
    /\ pc' = [pc EXCEPT ![c] = "publish"]
    /\ UNCHANGED <<collection, now, call, pool, got, catalog>>

\* Arc::new(Connection { database, client }) is stored in the cell and returned
Publish(c) ==
    /\ pool.state # "exited"
    /\ pc[c] = "publish"
    /\ pool' = [pool EXCEPT !.state = "ready", !.value = pool.made + 1, !.made = @ + 1]
    /\ got' = [got EXCEPT ![c] = @ \cup {pool.made + 1}]
    /\ pc' = [pc EXCEPT ![c] = "done"]
    /\ UNCHANGED <<collection, now, call, catalog>>

\* a caller that found the initialiser running resumes once the value is stored
Wake(c) ==
    /\ pool.state = "ready"
    /\ pc[c] = "blocked"
    /\ got' = [got EXCEPT ![c] = @ \cup {pool.value}]
    /\ pc' = [pc EXCEPT ![c] = "done"]
    /\ UNCHANGED <<collection, now, call, pool, catalog>>

\* the caller comes back for a later use of the handle
Again(c) ==
    /\ pool.state # "exited"
    /\ pc[c] = "done"
    /\ pc' = [pc EXCEPT ![c] = "idle"]
    /\ UNCHANGED <<collection, now, call, pool, got, catalog>>

NoCall == [op |-> "none"]

InitConn ==
    /\ pool \in {[impl |-> i, state |-> "uninit", value |-> 0, runs |-> 0, made |-> 0,
                  logged |-> "none"] : i \in {"Lazy", "AsyncOnce"}}
    /\ pc = [c \in Callers |-> "idle"]
    /\ got = [c \in Callers |-> {}]
    /\ collection = <<>>
    /\ now = 1
    /\ call = NoCall
    /\ catalog = EmptyCatalog

NextConn ==
    \/ \E c \in Callers : PoolGet(c)
    \/ \E c \in Callers, ok \in BOOLEAN : ParseOptions(c, ok)
    \/ \E c \in Callers, ok \in BOOLEAN : BuildClient(c, ok)
    \/ \E c \in Callers, ok \in BOOLEAN : ResolveDatabase(c, ok)
    \/ \E c \in Callers : MigrateIndexes(c)
    \/ \E c \in Callers : Publish(c)
    \/ \E c \in Callers : Wake(c)
    \/ \E c \in Callers : Again(c)

SpecConn == InitConn /\ [][NextConn]_vars

\* C1: under any interleaving of callers the initialiser runs at most once,
\* exactly once as soon as a caller has received the handle, and every
\* handle ever received by any caller is the one stored in the cell.
C1_InitOnce ==
    /\ pool.runs <= 1
    /\ \A c \in Callers : got[c] \subseteq {pool.value}
    /\ (\E c \in Callers : got[c] # {}) => (pool.runs = 1 /\ pool.state = "ready")

\* every caller holds the handle, after a first use and a later one
C1_Witness ==
    /\ \A c \in Callers : got[c] # {} /\ pc[c] = "done"
    /\ pool.runs = 1

\* C21: a failure of any step of connect (parsing the connection string,
\* building the client, resolving the default database) ends the process:
\* no caller holds the handle, so no repository operation has returned or
\* will return, and nothing takes a step after the failure.
C21_FailureIsFatal ==
    /\ [](pool.logged # "none" =>
            /\ pool.state = "exited"
            /\ \A c \in Callers : got[c] = {})
    /\ [][pool.logged = "none"]_vars

\* the database could not be resolved while other callers wait for the handle
C21_Witness ==
    /\ pool.logged = "resolve"
    /\ pool.state = "exited"
    /\ \E c \in Callers : pc[c] = "blocked"

\* the initialiser, once started, runs on: each step of connect returns or
\* exits, the value is stored, and the callers waiting on the cell are woken;
\* whether and when a caller asks for the handle is left to the caller
FairConn ==
    \A c \in Callers :
        /\ WF_vars(\E ok \in BOOLEAN : ParseOptions(c, ok))
        /\ WF_vars(\E ok \in BOOLEAN : BuildClient(c, ok))
        /\ WF_vars(\E ok \in BOOLEAN : ResolveDatabase(c, ok))
        /\ WF_vars(MigrateIndexes(c))
        /\ WF_vars(Publish(c))
        /\ WF_vars(Wake(c))

SpecConnFair == InitConn /\ [][NextConn]_vars /\ FairConn

\* C30: a caller that asked for the handle while it was being built
\* eventually receives it, unless initialisation fails and the process
\* exits; the initialiser itself never waits for the handle.
C30_WaitersServed ==
    \A c \in Callers : (pc[c] = "blocked") ~> (got[c] # {} \/ pool.state = "exited")

\* the handle has just been stored (after the index migration) while two
\* callers wait for it
C30_Witness ==
    /\ pool.impl = "AsyncOnce"
    /\ pool.state = "ready"
    /\ Cardinality({c \in Callers : pc[c] = "blocked"}) = 2

----------------------------------------------------------------------------
(* The update normaliser under every bounded update description *)

K_empty == <<>>
K_dollar == <<"$">>
K_city == <<"address", ".", "city">>
K_example_array == <<"example_array">>

UpdateKeys == {K_set, K_inc, K_push, K_dollar, K_username, K_age, K_updated_at, K_city, K_empty}

\* the values a caller may put under each key of an update description
UpdateValues(key) ==
    CASE key = K_set -> {BDoc(Doc1(K_username, BStr("evil"))),
                         BDoc(Doc1(K_updated_at, BDate(0))),
                         BStr("x")}
      [] key = K_inc -> {BDoc(Doc1(K_age, BInt(1))), BDoc(Doc1(K_age, BInt(0 - 1)))}
      [] key = K_push -> {BDoc(Doc1(K_example_array, BInt(1234)))}
      [] key = K_dollar -> {BInt(1)}
      [] key = K_username -> {BStr("a"), BStr("b")}
      [] key = K_age -> {BInt(1), BStr("x")}
      [] key = K_updated_at -> {BDate(0), BStr("never")}
      [] key = K_city -> {BStr("c")}
      [] key = K_empty -> {BStr("a")}

RECURSIVE DocsOver(_)
DocsOver(keys) ==
    IF keys = {} THEN {EmptyDoc}
    ELSE LET key == CHOOSE x \in keys : TRUE IN
         {Insert(d, key, val) : d \in DocsOver(keys \ {key}), val \in UpdateValues(key)}

UpdateDescriptions ==
    UNION {DocsOver(keys) : keys \in {ks \in SUBSET UpdateKeys : Cardinality(ks) <= MaxKeys}}

\* the keys of d that are not operator keys
PlainKeys(d) == {key \in DOMAIN d : ~StartsWith(key, "$")}

\* d without the key
Without(d, key) == [x \in (DOMAIN d) \ {key} |-> d[x]]

\* chrono::Utc::now() advances between calls
Tick ==
    /\ now < MaxTime
    /\ now' = now + 1
    /\ UNCHANGED <<collection, call, pool, pc, got, catalog>>

\* normalize_updates is about to be called on a caller's update description
PendingNormalize(updates) ==
    [op |-> "pending", updates |-> updates, at |-> 0, result |-> EmptyDoc,
     twice |-> FALSE, first |-> EmptyDoc, original |-> EmptyDoc]

\* the call of normalize_updates on the caller's update description
Normalize ==
    /\ call.op = "pending"
    /\ call' = [call EXCEPT !.op = "normalize_updates", !.at = now,
                            !.result = normalize_updates(call.updates, now)]
    /\ UNCHANGED <<collection, now, pool, pc, got, catalog>>

\* a call of normalize_updates on the output of the previous call
NormalizeAgain ==
    /\ call.op = "normalize_updates"
    /\ ~call.twice
    /\ call' = [op |-> "normalize_updates", updates |-> call.result, at |-> now,
                result |-> normalize_updates(call.result, now),
                twice |-> TRUE, first |-> call.result, original |-> call.updates]
    /\ UNCHANGED <<collection, now, pool, pc, got, catalog>>

\* the handle is initialised and every caller holds it
ReadyConn ==
    /\ pool = ReadyPool
    /\ pc = [c \in Callers |-> "done"]
    /\ got = [c \in Callers |-> {ReadyPool.value}]

InitNorm ==
    /\ ReadyConn
    /\ collection = <<>>
    /\ now = 1
    /\ call \in {PendingNormalize(updates) : updates \in UpdateDescriptions}
    /\ catalog = EmptyCatalog

NextNorm ==
    \/ Tick
    \/ Normalize
    \/ NormalizeAgain

SpecNorm == InitNorm /\ [][NextNorm]_vars

IsNormalize == call.op = "normalize_updates"

\* C6: the output of normalize_updates always has a $set bucket whose
\* updated_at is the time of the call, whatever the caller supplied.
C6_TimestampInjected ==
    IsNormalize =>
        /\ K_set \in DOMAIN call.result
        /\ call.result[K_set].k = "doc"
        /\ Get(call.result[K_set].v, K_updated_at) = FromChrono(call.at)

\* the caller supplied its own updated_at, different from the time of the call
C6_Witness ==
    /\ IsNormalize
    /\ K_updated_at \in DOMAIN call.updates
    /\ call.updates[K_updated_at] # FromChrono(call.at)
    /\ K_set \in DOMAIN call.updates

\* C7: every operator key other than $set is at the top level of the output
\* with its value and not in the $set bucket; every plain key is in the $set
\* bucket with its value (updated_at excepted) and not at the top level.
C7_PartitionExact ==
    IsNormalize =>
        LET bucket == call.result[K_set].v IN
        \A key \in DOMAIN call.updates :
            /\ (StartsWith(key, "$") /\ key # K_set) =>
                  /\ Get(call.result, key) = call.updates[key]
                  /\ key \notin DOMAIN bucket
            /\ ~StartsWith(key, "$") =>
                  /\ key \in DOMAIN bucket
                  /\ key # K_updated_at => bucket[key] = call.updates[key]
                  /\ key \notin DOMAIN call.result

\* the description mixes an operator key and a plain key
C7_Witness ==
    /\ IsNormalize
    /\ \E key \in DOMAIN call.updates : StartsWith(key, "$") /\ key # K_set
    /\ \E key \in DOMAIN call.updates : ~StartsWith(key, "$") /\ key # K_updated_at

\* C8: the output does not depend on a caller's $set: the description without
\* it, and with any other value for it, normalises at the same instant to the
\* same document, whose $set bucket holds the plain keys and updated_at only.
C8_SetIgnored ==
    IsNormalize =>
        /\ call.result = normalize_updates(Without(call.updates, K_set), call.at)
        /\ \A val \in UpdateValues(K_set) :
              normalize_updates(Insert(call.updates, K_set, val), call.at) = call.result
        /\ DOMAIN call.result[K_set].v = PlainKeys(call.updates) \cup {K_updated_at}
        /\ \A key \in PlainKeys(call.updates) \ {K_updated_at} :
              call.result[K_set].v[key] = call.updates[key]

\* the caller supplied a $set bucket with a field in it, beside a plain key
C8_Witness ==
    /\ IsNormalize
    /\ ~call.twice
    /\ K_set \in DOMAIN call.updates
    /\ call.updates[K_set].k = "doc"
    /\ PlainKeys(call.updates) # {}

\* the two documents agree on every key and value but the value of updated_at
SameButTimestamp(d, e) ==
    /\ DOMAIN d = DOMAIN e
    /\ \A key \in (DOMAIN d) \ {K_set} : d[key] = e[key]
    /\ DOMAIN d[K_set].v = DOMAIN e[K_set].v
    /\ \A key \in (DOMAIN d[K_set].v) \ {K_updated_at} : d[K_set].v[key] = e[K_set].v[key]

\* C9 as stated: normalising the output again changes nothing but the
\* value of updated_at.
C9_Idempotent ==
    (IsNormalize /\ call.twice) => SameButTimestamp(call.result, call.first)

\* C9 amended: normalising the output again keeps every operator key and
\* value, and leaves a $set bucket that holds updated_at alone; it equals the
\* first output apart from the timestamp exactly when the description had no
\* plain key other than updated_at.
C9_IdempotentOnOperators ==
    (IsNormalize /\ call.twice) =>
        /\ DOMAIN call.result = DOMAIN call.first
        /\ \A key \in (DOMAIN call.first) \ {K_set} : call.result[key] = call.first[key]
        /\ DOMAIN call.result[K_set].v = {K_updated_at}
        /\ SameButTimestamp(call.result, call.first)
              <=> PlainKeys(call.original) \subseteq {K_updated_at}

\* the output of a description with a plain field and an operator is normalised again
C9_Witness ==
    /\ IsNormalize
    /\ call.twice
    /\ K_username \in DOMAIN call.original
    /\ K_inc \in DOMAIN call.original
    /\ FromChrono(call.at) # call.first[K_set].v[K_updated_at]

----------------------------------------------------------------------------
(* The pipeline builder under every bounded stage sequence *)

\* the typed stages a caller may put in a pipeline
Stages ==
    {Match(Doc1(K_user, BStr("U"))),
     Match(EmptyDoc),
     Lookup("users", "user", "_id", "user"),
     Unwind("$user"),
     Project(Doc1(<<"content">>, BInt(1))),
     AddFields(Doc1(<<"post_date">>, BStr("$created_at"))),
     Limit(2),
     Sort(Doc1(<<"post_date">>, BInt(0 - 1)))}

RECURSIVE SeqsUpTo(_, _)
SeqsUpTo(S, n) ==
    IF n = 0 THEN {<<>>}
    ELSE LET shorter == SeqsUpTo(S, n - 1) IN
         shorter \cup {Append(q, x) : q \in {r \in shorter : Len(r) = n - 1}, x \in S}

\* create_pipeline is about to be called on a pipeline, seen as A ++ B
PendingPipeline(pipeline, split) ==
    [op |-> "pending", pipeline |-> pipeline, split |-> split,
     result |-> <<>>, left |-> <<>>, right |-> <<>>]

\* the calls of create_pipeline on A ++ B, on A and on B
CreatePipeline ==
    /\ call.op = "pending"
    /\ call' = [call EXCEPT
                  !.op = "create_pipeline",
                  !.result = create_pipeline(call.pipeline),
                  !.left = create_pipeline(SubSeq(call.pipeline, 1, call.split)),
                  !.right = create_pipeline(SubSeq(call.pipeline, call.split + 1,
                                                   Len(call.pipeline)))]
    /\ UNCHANGED <<collection, now, pool, pc, got, catalog>>

InitPipe ==
    /\ ReadyConn
    /\ collection = <<>>
    /\ now = 1
    /\ call \in {PendingPipeline(pipeline, split) :
                    pipeline \in SeqsUpTo(Stages, MaxStages), split \in 0..MaxStages}
    /\ call.split <= Len(call.pipeline)
    /\ catalog = EmptyCatalog

NextPipe == CreatePipeline

SpecPipe == InitPipe /\ [][NextPipe]_vars

\* the operator each stage kind is to be translated to
OperatorOf(kind) ==
    CASE kind = "Match" -> K_match
      [] kind = "Lookup" -> K_lookup
      [] kind = "Unwind" -> K_unwind
      [] kind = "Project" -> K_project
      [] kind = "AddFields" -> K_addFields
      [] kind = "Limit" -> K_limit
      [] kind = "Sort" -> K_sort

\* C10: create_pipeline(S) is as long as S, its Nth document has the one key
\* of the Nth stage's kind and is the translation of that stage alone, and
\* create_pipeline(A ++ B) = create_pipeline(A) ++ create_pipeline(B).
C10_PipelineStagewise ==
    call.op = "create_pipeline" =>
        /\ Len(call.result) = Len(call.pipeline)
        /\ \A n \in 1..Len(call.pipeline) :
              /\ n \in DOMAIN call.result
              /\ DOMAIN call.result[n] = {OperatorOf(call.pipeline[n].kind)}
              /\ <<call.result[n]>> = create_pipeline(<<call.pipeline[n]>>)
        /\ call.result = call.left \o call.right

\* a pipeline of full length with a repeated stage, split in two non-empty parts
C10_Witness ==
    /\ call.op = "create_pipeline"
    /\ Len(call.pipeline) = MaxStages
    /\ call.split \in 1..(MaxStages - 1)
    /\ \E n \in 1..(MaxStages - 1) : call.pipeline[n] = call.pipeline[n + 1]
    /\ \E n \in 1..MaxStages : call.pipeline[n].kind = "Lookup"

----------------------------------------------------------------------------
(* Records, their documents and the backing collection *)

\* Self::name() of the record type User
RecordName == "users"

\* the address of a freshly built mock user
MockAddress == [address |-> 0, city |-> "c0"]

\* the record as the document insert_one stores (serde names of the fields;
\* the timestamp goes through chrono_datetime_as_bson_datetime)
Encode(r) ==
    Insert(Insert(Insert(Insert(Insert(EmptyDoc,
        K_id, BStr(r.id)),
        K_username, BStr(r.username)),
        K_age, BInt(r.age)),
        K_address, BDoc(Insert(Insert(EmptyDoc,
                        K_address, BInt(r.address.address)),
                        K_city_field, BStr(r.address.city)))),
        K_updated_at, FromChrono(r.updated_at))

\* whether the driver can deserialise the document into the record type
\* (age is a u32: a negative number is refused; the ages of the model stay
\* far below the upper end of u32)
Decodable(d) ==
    /\ {K_id, K_username, K_age, K_address, K_updated_at} \subseteq DOMAIN d
    /\ d[K_id].k = "str"
    /\ d[K_username].k = "str"
    /\ d[K_age].k = "int" /\ d[K_age].v >= 0
    /\ d[K_address].k = "doc"
    /\ {K_address, K_city_field} \subseteq DOMAIN d[K_address].v
    /\ d[K_address].v[K_address].k = "int" /\ d[K_address].v[K_address].v >= 0
    /\ d[K_address].v[K_city_field].k = "str"
    /\ d[K_updated_at].k = "date"

\* the record the driver deserialises from the document; other fields are ignored
Decode(d) ==
    [id |-> d[K_id].v, username |-> d[K_username].v, age |-> d[K_age].v,
     address |-> [address |-> d[K_address].v[K_address].v,
                  city |-> d[K_address].v[K_city_field].v],
     updated_at |-> ToChrono(d[K_updated_at])]

Ok(value) == [ok |-> TRUE, value |-> value]
ErrOf(name, kind) == [ok |-> FALSE, kind |-> kind, name |-> name]
Err(kind) == ErrOf(RecordName, kind)

\* a reply of the driver: a failure, or a value (None when nothing was found)
Failed == [failed |-> TRUE, found |-> FALSE, value |-> None]
Reply(value) == [failed |-> FALSE, found |-> TRUE, value |-> value]
ReplyNone == [failed |-> FALSE, found |-> FALSE, value |-> None]

\* an equality filter: every key of the filter has its value in the document
\* (a null in the filter also matches a missing field)
Matches(d, filter) ==
    \A key \in DOMAIN filter :
        IF filter[key] = Null THEN Get(d, key) \in {None, Null}
        ELSE Get(d, key) = filter[key]

MatchingIndexes(coll, filter) == {i \in 1..Len(coll) : Matches(coll[i], filter)}

\* the fields under unique indexes: _id, and username (unique index of User)
UniqueKeys == {K_id, K_username}

\* whether document d may stand at position i (0: appended) of the collection
Unique(coll, i, d) ==
    \A j \in 1..Len(coll) : \A key \in UniqueKeys :
        (j # i /\ key \in DOMAIN d /\ key \in DOMAIN coll[j]) => coll[j][key] # d[key]

\* the fields an operator bucket of an update addresses
Paths(update, op) ==
    IF op \in DOMAIN update /\ update[op].k = "doc" THEN DOMAIN update[op].v ELSE {}

\* the field names along a dotted path: the key split at its dots
RECURSIVE Segments(_)
Segments(key) ==
    IF key = <<>> THEN << <<>> >>
    ELSE LET rest == Segments(Tail(key)) IN
         IF Head(key) = "." THEN << <<>> >> \o rest
         ELSE << <<Head(key)>> \o rest[1] >> \o Tail(rest)

\* two paths of one update may not be equal nor lead through one another
PathConflict(a, b) ==
    LET sa == Segments(a)
        sb == Segments(b)
    IN  \/ Len(sa) <= Len(sb) /\ SubSeq(sb, 1, Len(sa)) = sa
        \/ Len(sb) <= Len(sa) /\ SubSeq(sa, 1, Len(sb)) = sb

\* the <<operator, path>> pairs of an update
OperatorPaths(update) ==
    {<<op, key>> : op \in {K_set, K_inc}, key \in Paths(update, K_set) \cup Paths(update, K_inc)}
        \cap {t \in {K_set, K_inc} \X (Paths(update, K_set) \cup Paths(update, K_inc)) :
                 t[2] \in Paths(update, t[1])}

\* whether the store accepts the update document at all
ValidUpdate(update) ==
    /\ DOMAIN update \subseteq {K_set, K_inc}
    /\ \A op \in DOMAIN update : update[op].k = "doc"
    /\ \A t \in OperatorPaths(update) :
          \A n \in 1..Len(Segments(t[2])) : Segments(t[2])[n] # <<>>
    /\ \A t, u \in OperatorPaths(update) : t # u => ~PathConflict(t[2], u[2])
    /\ \A key \in Paths(update, K_inc) : update[K_inc].v[key].k = "int"

\* the value at the end of a path through nested documents, or None
RECURSIVE GetPath(_, _)
GetPath(d, segs) ==
    IF Head(segs) \notin DOMAIN d THEN None
    ELSE IF Len(segs) = 1 THEN d[Head(segs)]
    ELSE IF d[Head(segs)].k = "doc" THEN GetPath(d[Head(segs)].v, Tail(segs))
    ELSE None

\* whether the path leads through documents (or missing fields) only
RECURSIVE Traversable(_, _)
Traversable(d, segs) ==
    \/ Len(segs) = 1
    \/ Head(segs) \notin DOMAIN d
    \/ /\ d[Head(segs)].k = "doc"
       /\ Traversable(d[Head(segs)].v, Tail(segs))

\* a plausible slip: the dotted key is taken as the name of a top-level field
SetPathFlat(d, segs, val) ==
    IF Len(segs) = 1 THEN Insert(d, Head(segs), val)
    ELSE Insert(d, <<segs[1][1], ".", segs[2][1]>>, val)

\* the document with the value at the end of the path, missing documents
\* on the way being created
RECURSIVE SetPath(_, _, _)
SetPath(d, segs, val) ==
    IF Len(segs) = 1 THEN Insert(d, Head(segs), val)
    ELSE Insert(d, Head(segs),
                BDoc(SetPath(IF Head(segs) \in DOMAIN d THEN d[Head(segs)].v ELSE EmptyDoc,
                             Tail(segs), val)))

\* whether the store can apply the update to this document
Applicable(d, update) ==
    /\ \A t \in OperatorPaths(update) : Traversable(d, Segments(t[2]))
    /\ \A key \in Paths(update, K_inc) :
          GetPath(d, Segments(key)) = None \/ GetPath(d, Segments(key)).k = "int"
    /\ K_id \in Paths(update, K_set) => update[K_set].v[K_id] = Get(d, K_id)

\* the document after the operators have acted on the paths still to do
RECURSIVE ApplyPaths(_, _, _)
ApplyPaths(d, update, todo) ==
    IF todo = {} THEN d
    ELSE LET t == CHOOSE x \in todo : TRUE
             segs == Segments(t[2])
             val == update[t[1]].v[t[2]]
             old == GetPath(d, segs)
         IN  ApplyPaths(SetPath(d, segs,
                                IF t[1] = K_set THEN val
                                ELSE BInt((IF old = None THEN 0 ELSE old.v) + val.v)),
                        update, todo \ {t})

\* the document after $set and $inc
ApplyUpdate(d, update) == ApplyPaths(d, update, OperatorPaths(update))

\* find_one: fail is a failure of the store, i the document it returns
FindOne(coll, filter, fail, i) ==
    IF fail THEN Failed
    ELSE IF MatchingIndexes(coll, filter) = {} THEN ReplyNone
    ELSE IF ~Decodable(coll[i]) THEN Failed
    ELSE Reply(Decode(coll[i]))

\* the collection after find_one_and_update has acted on document i
UpdatedCollection(coll, filter, update, fail, i) ==
    IF \/ fail
       \/ ~ValidUpdate(update)
       \/ MatchingIndexes(coll, filter) = {}
       \/ ~Applicable(coll[i], update)
       \/ ~Unique(coll, i, ApplyUpdate(coll[i], update))
    THEN coll
    ELSE [coll EXCEPT ![i] = ApplyUpdate(coll[i], update)]

\* find_one_and_update with ReturnDocument::After
FindOneAndUpdate(coll, filter, update, fail, i) ==
    IF fail \/ ~ValidUpdate(update) THEN Failed
    ELSE IF MatchingIndexes(coll, filter) = {} THEN ReplyNone
    ELSE IF ~Applicable(coll[i], update) THEN Failed
    ELSE IF ~Unique(coll, i, ApplyUpdate(coll[i], update)) THEN Failed
    ELSE IF ~Decodable(ApplyUpdate(coll[i], update)) THEN Failed
    ELSE Reply(Decode(ApplyUpdate(coll[i], update)))

----------------------------------------------------------------------------
(* Repository operations: the client api methods of Model *)

\* the stored ages stay within the bound of the model
AgesInBounds(coll) ==
    \A i \in 1..Len(coll) :
        (K_age \in DOMAIN coll[i] /\ coll[i][K_age].k = "int") =>
            (coll[i][K_age].v >= 0 - MaxAge /\ coll[i][K_age].v <= MaxAge)

\* the document the store acts on: one of the matching ones, 0 when none matches
Chosen(coll, filter, i) ==
    IF MatchingIndexes(coll, filter) = {} THEN i = 0 ELSE i \in MatchingIndexes(coll, filter)

\* a slip of insert_one: success is reported and nothing is stored
InsertedOneLost(coll, d, fail) == coll

\* insert_one: the collection afterwards
InsertedOne(coll, d, fail) ==
    IF fail \/ ~Unique(coll, 0, d) THEN coll ELSE Append(coll, d)

\* Model::save
SaveResult(coll, r, fail) ==
    IF fail \/ ~Unique(coll, 0, Encode(r)) THEN Err("Insert") ELSE Ok(r)

Save(r, fail) ==
    /\ pool.state = "ready"
    /\ Len(collection) < MaxDocs
    /\ collection' = InsertedOne(collection, Encode(r), fail)
    /\ call' = [op |-> "save", record |-> r, fail |-> fail, at |-> now,
                before |-> collection, result |-> SaveResult(collection, r, fail)]
    /\ UNCHANGED <<now, pool, pc, got, catalog>>

\* Model::read: the arms of the match on find_one
ReadResult(reply) ==
    IF reply.failed THEN Err("NotFound")
    ELSE IF ~reply.found THEN Err("NotFound")
    ELSE Ok(reply.value)

\* a plausible slip: the document found is taken out of the collection
\* (find_one_and_delete in the place of find_one)
ReadConsuming(filter, fail, i) ==
    /\ pool.state = "ready"
    /\ Chosen(collection, filter, i)
    /\ call' = [op |-> "read", filter |-> filter, fail |-> fail, at |-> now,
                before |-> collection, chosen |-> i,
                result |-> ReadResult(FindOne(collection, filter, fail, i))]
    /\ collection' = IF fail \/ i = 0 THEN collection
                     ELSE SubSeq(collection, 1, i - 1)
                             \o SubSeq(collection, i + 1, Len(collection))
    /\ UNCHANGED <<now, pool, pc, got, catalog>>

Read(filter, fail, i) ==
    /\ pool.state = "ready"
    /\ Chosen(collection, filter, i)
    /\ call' = [op |-> "read", filter |-> filter, fail |-> fail, at |-> now,
                before |-> collection, chosen |-> i,
                result |-> ReadResult(FindOne(collection, filter, fail, i))]
    /\ UNCHANGED <<collection, now, pool, pc, got, catalog>>

\* Model::read_by_id: read(doc! { "_id": id })
ReadById(id, fail, i) ==
    /\ pool.state = "ready"
    /\ Chosen(collection, Doc1(K_id, BStr(id)), i)
    /\ call' = [op |-> "read_by_id", filter |-> Doc1(K_id, BStr(id)), fail |-> fail,
                at |-> now, before |-> collection, chosen |-> i,
                result |-> ReadResult(FindOne(collection, Doc1(K_id, BStr(id)), fail, i))]
    /\ UNCHANGED <<collection, now, pool, pc, got, catalog>>

\* Model::update: the arms of the match on find_one_and_update
UpdateResult(reply) ==
    IF reply.failed THEN Err("Update")
    ELSE IF ~reply.found THEN Err("NotFound")
    ELSE Ok(reply.value)

Update(filter, updates, fail, i) ==
    /\ pool.state = "ready"
    /\ Chosen(collection, filter, i)
    /\ LET update == normalize_updates(updates, now) IN
         /\ collection' = UpdatedCollection(collection, filter, update, fail, i)
         /\ call' = [op |-> "update", filter |-> filter, updates |-> updates,
                     update |-> update, fail |-> fail, at |-> now,
                     before |-> collection, chosen |-> i,
                     result |-> UpdateResult(
                                   FindOneAndUpdate(collection, filter, update, fail, i))]
    /\ AgesInBounds(collection')
    /\ UNCHANGED <<now, pool, pc, got, catalog>>

\* Option<T>: Some(x) is <<x>>, None is << >>
Some(x) == <<x>>
Nothing == <<>>
IsSome(o) == Len(o) = 1
Unwrap(o) == o[1]

DefaultLimit == 1000

\* the FindOptions list builds from the caller's options
ListFindOptions(options) ==
    IF IsSome(options)
    THEN Some([skip |-> Unwrap(options).skip,
               limit |-> IF IsSome(Unwrap(options).limit) THEN Unwrap(options).limit ELSE Some(DefaultLimit),
               sort |-> Unwrap(options).sort,
               projection |-> Nothing])
    ELSE Nothing

\* the place of a value in the sort order of the store: by type, then by value
Rank(d, key) ==
    LET val == Get(d, key) IN
    CASE val.k \in {"none", "null"} -> <<1, 0>>
      [] val.k = "int" -> <<2, val.v>>
      [] val.k = "str" -> <<3, 0>>
      [] val.k = "doc" -> <<4, 0>>
      [] val.k = "arr" -> <<4, 1>>
      [] val.k = "date" -> <<5, val.v>>

RankLess(a, b) == a[1] < b[1] \/ (a[1] = b[1] /\ a[2] < b[2])

RECURSIVE SortByRanks(_, _, _, _)
SortByRanks(docs, key, ranks, dir) ==
    IF ranks = {} THEN <<>>
    ELSE LET r == CHOOSE x \in ranks : \A y \in ranks :
                     y = x \/ (IF dir >= 0 THEN RankLess(x, y) ELSE RankLess(y, x))
         IN SelectSeq(docs, LAMBDA d : Rank(d, key) = r)
               \o SortByRanks(docs, key, ranks \ {r}, dir)

\* a plausible slip: the sort document is not handed on to the store
SortedAsStored(docs, sort) == docs

\* the documents in the order of a one-key sort document (ties in stored order)
Sorted(docs, sort) ==
    IF ~IsSome(sort) \/ DOMAIN Unwrap(sort) = {} THEN docs
    ELSE LET key == CHOOSE x \in DOMAIN Unwrap(sort) : TRUE IN
         SortByRanks(docs, key, {Rank(docs[i], key) : i \in 1..Len(docs)}, Unwrap(sort)[key].v)

Skipped(docs, skip) ==
    IF ~IsSome(skip) THEN docs ELSE SubSeq(docs, Unwrap(skip) + 1, Len(docs))

Limited(docs, limit) ==
    IF ~IsSome(limit) \/ Unwrap(limit) = 0 \/ Unwrap(limit) >= Len(docs) THEN docs
    ELSE SubSeq(docs, 1, Unwrap(limit))

\* find: the documents the cursor yields
Find(coll, filter, opts) ==
    LET matching == SelectSeq(coll, LAMBDA d : Matches(d, IF IsSome(filter) THEN Unwrap(filter) ELSE EmptyDoc))
    IN IF ~IsSome(opts) THEN matching
       ELSE Limited(Skipped(Sorted(matching, Unwrap(opts).sort), Unwrap(opts).skip), Unwrap(opts).limit)

\* the items a cursor yields: the result documents, up to the
\* position (0: none) at which the cursor breaks and yields an error
CursorItems(docs, broken) ==
    IF broken = 0 \/ broken > Len(docs)
    THEN [n \in 1..Len(docs) |-> [ok |-> TRUE, document |-> docs[n]]]
    ELSE [n \in 1..broken |->
             IF n < broken THEN [ok |-> TRUE, document |-> docs[n]]
             ELSE [ok |-> FALSE, document |-> EmptyDoc]]

\* a plausible slip: the loop ends at the first item it cannot take
RECURSIVE ListLoopBreaking(_, _)
ListLoopBreaking(items, list_result) ==
    IF items = <<>> THEN list_result
    ELSE IF ~Head(items).ok \/ ~Decodable(Head(items).document) THEN list_result
    ELSE ListLoopBreaking(Tail(items), Append(list_result, Decode(Head(items).document)))

\* the while loop of list over the typed cursor: an item that is an error of
\* the cursor, or a document that cannot be decoded, is skipped
ListLoop(items, list_result) ==
    LET pushed == SelectSeq(items, LAMBDA item : item.ok /\ Decodable(item.document)) IN
    list_result \o [n \in 1..Len(pushed) |-> Decode(pushed[n].document)]

\* the records list collects from a cursor over the documents
CursorRecords(docs, broken) == ListLoop(CursorItems(docs, broken), <<>>)

\* the items the cursor of the call yields (none when find is refused)
ListItems(coll, filter, options, fail, broken) ==
    IF fail THEN <<>>
    ELSE CursorItems(Find(coll, filter, ListFindOptions(options)), broken)

\* a slip of list: an empty result is reported as read reports it
ListResultNotFound(coll, filter, options, fail, broken) ==
    IF fail THEN Err("List")
    ELSE IF Find(coll, filter, ListFindOptions(options)) = <<>> THEN Err("NotFound")
    ELSE Ok(CursorRecords(Find(coll, filter, ListFindOptions(options)), broken))

\* Model::list
ListResult(coll, filter, options, fail, broken) ==
    IF fail THEN Err("List")
    ELSE Ok(CursorRecords(Find(coll, filter, ListFindOptions(options)), broken))

\* list over a cursor that breaks at position broken (0: it does not break)
ListCursor(filter, options, fail, broken) ==
    /\ pool.state = "ready"
    /\ call' = [op |-> "list", filter |-> filter, options |-> options, fail |-> fail,
                broken |-> broken, at |-> now, before |-> collection,
                items |-> ListItems(collection, filter, options, fail, broken),
                result |-> ListResult(collection, filter, options, fail, broken)]
    /\ UNCHANGED <<collection, now, pool, pc, got, catalog>>

\* list over a cursor that does not break
List(filter, options, fail) == ListCursor(filter, options, fail, 0)

\* insert_many (ordered): the documents before the first one a unique index refuses
InsertedPrefix(coll, docs) ==
    LET stored == [key \in UniqueKeys |->
                      {coll[m][key] : m \in {x \in 1..Len(coll) : key \in DOMAIN coll[x]}}]
        having == [key \in UniqueKeys |-> {x \in 1..Len(docs) : key \in DOMAIN docs[x]}]
        given == [key \in UniqueKeys |-> {docs[m][key] : m \in having[key]}]
        refused == {j \in 1..Len(docs) :
                      \E key \in UniqueKeys :
                          /\ key \in DOMAIN docs[j]
                          /\ \/ docs[j][key] \in stored[key]
                             \/ \E m \in 1..(j - 1) :
                                   key \in DOMAIN docs[m] /\ docs[m][key] = docs[j][key]}
    IN IF \A key \in UniqueKeys :
             /\ given[key] \cap stored[key] = {}
             /\ Cardinality(given[key]) = Cardinality(having[key])
       THEN Len(docs)
       ELSE (CHOOSE j \in refused : \A x \in refused : j <= x) - 1

\* Model::bulk_insert (the driver refuses an empty batch)
BulkInsertResult(coll, docs, fail) ==
    IF fail \/ docs = <<>> \/ InsertedPrefix(coll, docs) < Len(docs) THEN Err("BulkInsert")
    ELSE Ok([n \in 1..Len(docs) |-> docs[n][K_id]])

BulkInsert(records, fail) ==
    /\ pool.state = "ready"
    /\ LET docs == [n \in 1..Len(records) |-> Encode(records[n])] IN
         /\ collection' = IF fail THEN collection
                          ELSE collection \o SubSeq(docs, 1, InsertedPrefix(collection, docs))
         /\ call' = [op |-> "bulk_insert", records |-> records, fail |-> fail, at |-> now,
                     before |-> collection,
                     result |-> BulkInsertResult(collection, docs, fail)]
    /\ UNCHANGED <<now, pool, pc, got, catalog>>

----------------------------------------------------------------------------
(* delete, bulk_delete, bulk_update and count *)

\* the documents that are not at the given positions, in their order
RECURSIVE Removed(_, _)
Removed(coll, gone) ==
    IF coll = <<>> THEN <<>>
    ELSE Removed(SubSeq(coll, 1, Len(coll) - 1), gone)
            \o (IF Len(coll) \in gone THEN <<>> ELSE <<coll[Len(coll)]>>)

\* slips of delete_one: it removes nothing / it removes every matching document
DeletedOneKept(coll, filter, fail, i) == coll

DeletedOneEvery(coll, filter, fail, i) ==
    IF fail THEN coll ELSE Removed(coll, MatchingIndexes(coll, filter))

\* delete_one: the collection afterwards; i is the matching document the store picks
DeletedOne(coll, filter, fail, i) ==
    IF fail \/ MatchingIndexes(coll, filter) = {} THEN coll ELSE Removed(coll, {i})

\* delete_one: the DeleteResult of the driver
DeleteOne(coll, filter, fail) ==
    IF fail THEN Failed
    ELSE Reply([deleted_count |-> IF MatchingIndexes(coll, filter) = {} THEN 0 ELSE 1])

\* Model::delete
DeleteResult(reply) == IF reply.failed THEN Err("Delete") ELSE Ok(reply.value)

Delete(filter, fail, i) ==
    /\ pool.state = "ready"
    /\ Chosen(collection, filter, i)
    /\ collection' = DeletedOne(collection, filter, fail, i)
    /\ call' = [op |-> "delete", filter |-> filter, fail |-> fail, at |-> now,
                before |-> collection, chosen |-> i,
                result |-> DeleteResult(DeleteOne(collection, filter, fail))]
    /\ UNCHANGED <<now, pool, pc, got, catalog>>

\* a slip of delete_many: it stops after the first matching document
DeletedManyFirst(coll, filter, fail) ==
    IF fail \/ MatchingIndexes(coll, filter) = {} THEN coll
    ELSE Removed(coll, {CHOOSE i \in MatchingIndexes(coll, filter) :
                           \A j \in MatchingIndexes(coll, filter) : i <= j})

\* delete_many: the collection afterwards
DeletedMany(coll, filter, fail) ==
    IF fail THEN coll ELSE Removed(coll, MatchingIndexes(coll, filter))

\* delete_many: the DeleteResult of the driver
DeleteMany(coll, filter, fail) ==
    IF fail THEN Failed
    ELSE Reply([deleted_count |-> Cardinality(MatchingIndexes(coll, filter))])

\* a slip of bulk_delete: the error kind of delete, copied with the match
BulkDeleteResultAsDelete(reply) == IF reply.failed THEN Err("Delete") ELSE Ok(reply.value)

\* Model::bulk_delete
BulkDeleteResult(reply) == IF reply.failed THEN Err("BulkDelete") ELSE Ok(reply.value)

BulkDelete(filter, fail) ==
    /\ pool.state = "ready"
    /\ collection' = DeletedMany(collection, filter, fail)
    /\ call' = [op |-> "bulk_delete", filter |-> filter, fail |-> fail, at |-> now,
                before |-> collection,
                result |-> BulkDeleteResult(DeleteMany(collection, filter, fail))]
    /\ UNCHANGED <<now, pool, pc, got, catalog>>

\* a slip of update_many: it updates the first matching document only
RECURSIVE UpdateFromOnce(_, _, _, _)
UpdateFromOnce(coll, filter, update, i) ==
    IF i > Len(coll) THEN [coll |-> coll, failed |-> FALSE]
    ELSE IF ~Matches(coll[i], filter) THEN UpdateFromOnce(coll, filter, update, i + 1)
    ELSE IF ~Applicable(coll[i], update) \/ ~Unique(coll, i, ApplyUpdate(coll[i], update))
         THEN [coll |-> coll, failed |-> TRUE]
    ELSE [coll |-> [coll EXCEPT ![i] = ApplyUpdate(coll[i], update)], failed |-> FALSE]

\* update_many from position i on: each matching document is updated in turn,
\* and the store stops at the first one it cannot update, keeping the earlier ones
RECURSIVE UpdateFrom(_, _, _, _)
UpdateFrom(coll, filter, update, i) ==
    IF i > Len(coll) THEN [coll |-> coll, failed |-> FALSE]
    ELSE IF ~Matches(coll[i], filter) THEN UpdateFrom(coll, filter, update, i + 1)
    ELSE IF ~Applicable(coll[i], update) \/ ~Unique(coll, i, ApplyUpdate(coll[i], update))
         THEN [coll |-> coll, failed |-> TRUE]
    ELSE UpdateFrom([coll EXCEPT ![i] = ApplyUpdate(coll[i], update)], filter, update, i + 1)

\* update_many: the collection afterwards
UpdatedMany(coll, filter, update, fail) ==
    IF fail \/ ~ValidUpdate(update) THEN coll ELSE UpdateFrom(coll, filter, update, 1).coll

\* update_many: the UpdateResult of the driver
UpdateMany(coll, filter, update, fail) ==
    IF fail \/ ~ValidUpdate(update) THEN Failed
    ELSE IF UpdateFrom(coll, filter, update, 1).failed THEN Failed
    ELSE Reply([matched_count |-> Cardinality(MatchingIndexes(coll, filter)),
                modified_count |-> Cardinality({i \in MatchingIndexes(coll, filter) :
                                                   ApplyUpdate(coll[i], update) # coll[i]})])

\* Model::bulk_update
BulkUpdateResult(reply) == IF reply.failed THEN Err("BulkUpdate") ELSE Ok(reply.value)

\* a plausible slip: the caller's update description goes to the store as it is
BulkUpdateRaw(filter, updates, fail) ==
    /\ pool.state = "ready"
    /\ collection' = UpdatedMany(collection, filter, updates, fail)
    /\ call' = [op |-> "bulk_update", filter |-> filter, updates |-> updates,
                update |-> updates, fail |-> fail, at |-> now, before |-> collection,
                result |-> BulkUpdateResult(UpdateMany(collection, filter, updates, fail))]
    /\ AgesInBounds(collection')
    /\ UNCHANGED <<now, pool, pc, got, catalog>>

BulkUpdate(filter, updates, fail) ==
    /\ pool.state = "ready"
    /\ LET update == normalize_updates(updates, now) IN
         /\ collection' = UpdatedMany(collection, filter, update, fail)
         /\ call' = [op |-> "bulk_update", filter |-> filter, updates |-> updates,
                     update |-> update, fail |-> fail, at |-> now, before |-> collection,
                     result |-> BulkUpdateResult(
                                   UpdateMany(collection, filter, update, fail))]
    /\ AgesInBounds(collection')
    /\ UNCHANGED <<now, pool, pc, got, catalog>>

\* a slip of count: the documents of the whole collection are counted
CountDocumentsAll(coll, filter, fail) == IF fail THEN Failed ELSE Reply(Len(coll))

\* count_documents: an unset filter is the empty filter
CountDocuments(coll, filter, fail) ==
    IF fail THEN Failed
    ELSE Reply(Cardinality(MatchingIndexes(coll,
                   IF IsSome(filter) THEN Unwrap(filter) ELSE EmptyDoc)))

\* Model::count
CountResult(reply) == IF reply.failed THEN Err("Count") ELSE Ok(reply.value)

Count(filter, fail) ==
    /\ pool.state = "ready"
    /\ call' = [op |-> "count", filter |-> filter, fail |-> fail, at |-> now,
                before |-> collection,
                result |-> CountResult(CountDocuments(collection, filter, fail))]
    /\ UNCHANGED <<collection, now, pool, pc, got, catalog>>

----------------------------------------------------------------------------
(* aggregate_raw and aggregate *)

\* $project of one document: an inclusion keeps the named fields and _id, an
\* exclusion drops the named fields
Projected(d, projection) ==
    IF \E key \in DOMAIN projection : key # K_id /\ projection[key] # BInt(0)
    THEN [key \in {x \in DOMAIN d : \/ (x \in DOMAIN projection /\ projection[x] # BInt(0))
                                    \/ (x = K_id /\ x \notin DOMAIN projection)} |-> d[key]]
    ELSE [key \in {x \in DOMAIN d : x \notin DOMAIN projection} |-> d[key]]

\* the operator of a raw stage document
StageOperator(stage) == CHOOSE key \in DOMAIN stage : TRUE

\* whether the store accepts the raw stage: $limit must be positive and $sort
\* must name a key
ValidStage(stage) ==
    /\ Cardinality(DOMAIN stage) = 1
    /\ StageOperator(stage) \in {K_match, K_limit, K_sort, K_project, K_lookup, K_unwind}
    /\ StageOperator(stage) = K_limit =>
          (stage[K_limit].k = "int" /\ stage[K_limit].v > 0)
    /\ StageOperator(stage) = K_sort =>
          (stage[K_sort].k = "doc" /\ DOMAIN stage[K_sort].v # {})
    /\ StageOperator(stage) = K_lookup =>
          /\ stage[K_lookup].k = "doc"
          /\ DOMAIN stage[K_lookup].v = {K_from, K_localField, K_foreignField, K_as}
          /\ \A key \in DOMAIN stage[K_lookup].v :
                stage[K_lookup].v[key].k = "str" /\ stage[K_lookup].v[key].v # <<>>
    /\ StageOperator(stage) = K_unwind =>
          /\ stage[K_unwind].k = "doc"
          /\ DOMAIN stage[K_unwind].v = {K_path}
          /\ stage[K_unwind].v[K_path].k = "str"
          /\ Len(stage[K_unwind].v[K_path].v) > 1
          /\ StartsWith(stage[K_unwind].v[K_path].v, "$")

\* the documents of the collection a $lookup reads from: another collection
\* of the database, empty when there is none of that name
LookupFrom(db, from) ==
    IF \E n \in 1..Len(db.others) : db.others[n].name = from
    THEN (CHOOSE c \in {db.others[n] : n \in 1..Len(db.others)} : c.name = from).docs
    ELSE <<>>

\* a plausible slip of the store: the first joined document stands for the array
LookedUpFirst(d, lookup, db) ==
    LET joined == SelectSeq(LookupFrom(db, lookup[K_from].v),
                            LAMBDA f : Get(f, lookup[K_foreignField].v)
                                          = Get(d, lookup[K_localField].v))
    IN  IF joined = <<>> THEN d ELSE Insert(d, lookup[K_as].v, BDoc(joined[1]))

\* $lookup: the document with, under "as", the array of the documents of
\* "from" whose foreignField equals its localField
LookedUp(d, lookup, db) ==
    LET joined == SelectSeq(LookupFrom(db, lookup[K_from].v),
                            LAMBDA f : Get(f, lookup[K_foreignField].v)
                                          = Get(d, lookup[K_localField].v))
    IN  Insert(d, lookup[K_as].v, BArr([n \in 1..Len(joined) |-> BDoc(joined[n])]))

\* $unwind: one document per element of the array at the path; a document
\* whose field is missing, null or an empty array is dropped, one whose
\* field is not an array is passed on
RECURSIVE Unwound(_, _)
Unwound(docs, field) ==
    IF docs = <<>> THEN <<>>
    ELSE LET d == Head(docs)
             val == Get(d, field)
         IN  (IF val.k \in {"none", "null"} THEN <<>>
              ELSE IF val.k = "arr" THEN [n \in 1..Len(val.v) |-> Insert(d, field, val.v[n])]
              ELSE <<d>>)
             \o Unwound(Tail(docs), field)

\* the documents a stage of the store puts out for the documents it takes in
RunStage(docs, stage, db) ==
    CASE StageOperator(stage) = K_match ->
            SelectSeq(docs, LAMBDA d : Matches(d, stage[K_match].v))
      [] StageOperator(stage) = K_limit -> Limited(docs, Some(stage[K_limit].v))
      [] StageOperator(stage) = K_sort -> Sorted(docs, Some(stage[K_sort].v))
      [] StageOperator(stage) = K_project ->
            [n \in 1..Len(docs) |-> Projected(docs[n], stage[K_project].v)]
      [] StageOperator(stage) = K_lookup ->
            [n \in 1..Len(docs) |-> LookedUp(docs[n], stage[K_lookup].v, db)]
      [] StageOperator(stage) = K_unwind ->
            Unwound(docs, Tail(stage[K_unwind].v[K_path].v))

RECURSIVE RunPipeline(_, _, _)
RunPipeline(docs, pipeline, db) ==
    IF pipeline = <<>> THEN docs
    ELSE RunPipeline(RunStage(docs, Head(pipeline), db), Tail(pipeline), db)

\* whether bson::from_document::<T> can decode the document
DecodableAs(T, d) ==
    IF T = "PopulatedPost"
    THEN /\ {K_id, K_user, K_updated_at} \subseteq DOMAIN d
         /\ d[K_id].k = "str"
         /\ d[K_user].k = "doc" /\ Decodable(d[K_user].v)
         /\ d[K_updated_at].k = "date"
    ELSE Decodable(d)

\* the value of type T decoded from the document
DecodeAs(T, d) ==
    IF T = "PopulatedPost"
    THEN [id |-> d[K_id].v, user |-> Decode(d[K_user].v),
          updated_at |-> ToChrono(d[K_updated_at])]
    ELSE Decode(d)

\* a slip of the loop: an item that cannot be decoded is skipped, as in list
RECURSIVE AggregateLoopSkipping(_, _, _, _)
AggregateLoopSkipping(name, T, items, aggregate_docs) ==
    IF items = <<>> THEN Ok(aggregate_docs)
    ELSE IF ~Head(items).ok THEN ErrOf(name, "Aggregate")
    ELSE IF ~DecodableAs(T, Head(items).document)
         THEN AggregateLoopSkipping(name, T, Tail(items), aggregate_docs)
    ELSE AggregateLoopSkipping(name, T, Tail(items),
                               Append(aggregate_docs, DecodeAs(T, Head(items).document)))

\* the loop over the cursor: the first item that is an error, or that
\* bson::from_document cannot decode, ends the call
RECURSIVE AggregateLoop(_, _, _, _)
AggregateLoop(name, T, items, aggregate_docs) ==
    IF items = <<>> THEN Ok(aggregate_docs)
    ELSE IF ~Head(items).ok THEN ErrOf(name, "Aggregate")
    ELSE IF ~DecodableAs(T, Head(items).document) THEN ErrOf(name, "Aggregate")
    ELSE AggregateLoop(name, T, Tail(items),
                       Append(aggregate_docs, DecodeAs(T, Head(items).document)))

\* the items the cursor of the call yields (none when the store refuses the call)
AggregateItems(coll, pipeline, fail, broken, db) ==
    IF fail \/ \E n \in 1..Len(pipeline) : ~ValidStage(pipeline[n]) THEN <<>>
    ELSE CursorItems(RunPipeline(coll, pipeline, db), broken)

\* Model::aggregate_raw::<T> of the record type of that name
aggregate_raw(name, T, coll, pipeline, fail, broken, db) ==
    IF fail \/ \E n \in 1..Len(pipeline) : ~ValidStage(pipeline[n])
    THEN ErrOf(name, "Aggregate")
    ELSE AggregateLoop(name, T, AggregateItems(coll, pipeline, fail, broken, db), <<>>)

\* a plausible slip: the stages are handed on in reverse
aggregate_reversed(name, T, coll, pipeline, fail, broken, db) ==
    aggregate_raw(name, T, coll,
                  [n \in 1..Len(pipeline) |->
                      create_pipeline(pipeline)[Len(pipeline) + 1 - n]],
                  fail, broken, db)

\* Model::aggregate::<T>
aggregate(name, T, coll, pipeline, fail, broken, db) ==
    aggregate_raw(name, T, coll, create_pipeline(pipeline), fail, broken, db)

\* Model::aggregate
AggregateAs(name, T, pipeline, fail, broken) ==
    /\ pool.state = "ready"
    /\ call' = [op |-> "aggregate", pipeline |-> pipeline, fail |-> fail,
                broken |-> broken, at |-> now, before |-> collection,
                items |-> AggregateItems(collection, create_pipeline(pipeline),
                                         fail, broken, catalog),
                result |-> aggregate(name, T, collection, pipeline, fail, broken, catalog)]
    /\ UNCHANGED <<collection, now, pool, pc, got, catalog>>

\* User::aggregate::<User>
Aggregate(pipeline, fail, broken) == AggregateAs(RecordName, "User", pipeline, fail, broken)

----------------------------------------------------------------------------
(* create_indexes and create_view *)

\* IndexModel::builder().keys(doc! { key: 1 }).options(unique)
IndexModel(key, unique) == [keys |-> key, unique |-> unique]

\* the catalog of the users collection: the unique index on username
UserCatalog ==
    [views |-> {}, indexes |-> {IndexModel(K_username, TRUE)}, others |-> <<>>]

\* whether an index on the same keys exists with other options
IndexConflict(cat, options) ==
    \E n \in 1..Len(options) : \E index \in cat.indexes :
        index.keys = options[n].keys /\ index # options[n]

\* create_indexes of the driver: the catalog afterwards
CreatedIndexes(cat, options, fail) ==
    IF fail \/ IndexConflict(cat, options) THEN cat
    ELSE [cat EXCEPT !.indexes = @ \cup {options[n] : n \in 1..Len(options)}]

\* Model::create_indexes
CreateIndexesResult(cat, options, fail) ==
    IF fail \/ IndexConflict(cat, options) THEN Err("CreateIndex")
    ELSE Ok([n \in 1..Len(options) |-> options[n].keys])

CreateIndexes(options, fail) ==
    /\ pool.state = "ready"
    /\ catalog' = CreatedIndexes(catalog, options, fail)
    /\ call' = [op |-> "create_indexes", options |-> options, fail |-> fail, at |-> now,
                before |-> collection,
                result |-> CreateIndexesResult(catalog, options, fail)]
    /\ UNCHANGED <<collection, now, pool, pc, got>>

\* a view: create_collection(name, view_on(source), pipeline)
View(name, source, pipeline) == [name |-> name, view_on |-> source, pipeline |-> pipeline]

\* whether the database has a view of that name
ViewExists(cat, name) == \E view \in cat.views : view.name = name

\* whether create_collection of the store accepts the request: a name in use
\* is refused, unless the store lets a declaration identical to the existing
\* one pass (lenient)
CreateAccepted(cat, view, fail, lenient) ==
    /\ ~fail
    /\ ViewExists(cat, view.name) => (lenient /\ view \in cat.views)

\* create_collection: the catalog afterwards
CreatedCollection(cat, view, fail, lenient) ==
    IF CreateAccepted(cat, view, fail, lenient)
    THEN [cat EXCEPT !.views = @ \cup {view}]
    ELSE cat

\* a slip: an error of the store is reported as success
CreateViewResultTolerant(accepted) == TRUE

\* the arms of the match in create_view: Ok(_) => true, Err(err) => false
CreateViewResult(accepted) == accepted

\* Model::create_view
CreateView(name, source, pipeline, fail, lenient) ==
    /\ pool.state = "ready"
    /\ catalog' = CreatedCollection(catalog, View(name, source, pipeline), fail, lenient)
    /\ call' = [op |-> "create_view", view |-> View(name, source, pipeline),
                fail |-> fail, lenient |-> lenient, at |-> now, before |-> catalog,
                result |-> CreateViewResult(
                              CreateAccepted(catalog, View(name, source, pipeline),
                                             fail, lenient))]
    /\ UNCHANGED <<collection, now, pool, pc, got>>

----------------------------------------------------------------------------
(* The repository over a small collection *)

Ids == {"u1", "u2"}
Usernames == {"a", "b"}

\* the records a caller may save
Records(t) ==
    [id : Ids, username : Usernames, age : {0, 1}, address : {MockAddress}, updated_at : {t}]

\* the filters a caller may pass
Filters == {EmptyDoc, Doc1(K_id, BStr("u1")), Doc1(K_username, BStr("b"))}

\* the update descriptions a caller may pass
RepoUpdates ==
    {Doc1(K_inc, BDoc(Doc1(K_age, BInt(0 - 1)))),
     Doc1(K_username, BStr("b")),
     Insert(Doc1(K_updated_at, BDate(0)), K_set, BDoc(Doc1(K_username, BStr("evil")))),
     EmptyDoc,
     Insert(Doc1(K_age, BInt(1)), K_inc, BDoc(Doc1(K_age, BInt(1))))}

InitRepo ==
    /\ ReadyConn
    /\ collection = <<>>
    /\ now = 1
    /\ call = NoCall
    /\ catalog = EmptyCatalog

NextRepo ==
    \/ Tick
    \/ \E r \in Records(now), fail \in BOOLEAN : Save(r, fail)
    \/ \E filter \in Filters, fail \in BOOLEAN, i \in 0..MaxDocs : Read(filter, fail, i)
    \/ \E id \in Ids, fail \in BOOLEAN, i \in 0..MaxDocs : ReadById(id, fail, i)
    \/ \E filter \in Filters, updates \in RepoUpdates, fail \in BOOLEAN, i \in 0..MaxDocs :
          Update(filter, updates, fail, i)

SpecRepo == InitRepo /\ [][NextRepo]_vars

IsRead == call.op \in {"read", "read_by_id"}
IsUpdate == call.op = "update"

\* C3: read and read_by_id answer NotFound only when no document matches the
\* filter, and a failure of the store is reported as an error of another kind.
C3_NotFoundOnlyWhenNoMatch ==
    IsRead =>
        /\ (~call.result.ok /\ call.result.kind = "NotFound")
              => MatchingIndexes(call.before, call.filter) = {}
        /\ call.fail => (~call.result.ok /\ call.result.kind # "NotFound")

\* the store carried the update out: it neither failed nor rejected the request
StoreAccepted ==
    /\ ~call.fail
    /\ ValidUpdate(call.update)
    /\ call.chosen # 0 =>
          /\ Applicable(call.before[call.chosen], call.update)
          /\ Unique(call.before, call.chosen,
                    ApplyUpdate(call.before[call.chosen], call.update))

\* exactly document i of the collection has been updated, by the whole update
UpdatedExactly(i) ==
    /\ Len(collection) = Len(call.before)
    /\ collection[i] = ApplyUpdate(call.before[i], call.update)
    /\ \A j \in 1..Len(collection) : j # i => collection[j] = call.before[j]

\* C4: when the store carries the update out and a document matches, exactly
\* one matching document is updated and its new state is returned; when none
\* matches, the answer is NotFound and nothing is modified.
C4_UpdateExactlyOne ==
    (IsUpdate /\ StoreAccepted) =>
        IF MatchingIndexes(call.before, call.filter) = {}
        THEN /\ call.result = Err("NotFound")
             /\ collection = call.before
        ELSE \E i \in MatchingIndexes(call.before, call.filter) :
                /\ UpdatedExactly(i)
                /\ call.result.ok
                /\ Encode(call.result.value) = collection[i]

\* C5: an update that returns an error has changed no document; an update
\* that returns a record has applied the whole normalised update to one
\* document.
C5_AllOrNothing ==
    IsUpdate =>
        /\ ~call.result.ok => collection = call.before
        /\ call.result.ok => \E i \in 1..Len(collection) : UpdatedExactly(i)

\* the caller's update description is { "$inc": { "age": k } }
IsIncAge ==
    /\ IsUpdate
    /\ DOMAIN call.updates = {K_inc}
    /\ call.updates[K_inc].k = "doc"
    /\ DOMAIN call.updates[K_inc].v = {K_age}
    /\ call.updates[K_inc].v[K_age].k = "int"

\* C22: update with { "$inc": { "age": k } } on a filter matching one
\* document of age a, answered by the store, returns a record of age a + k
\* whose updated_at is strictly greater than the document's updated_at before
\* the call.
C22_IncAge ==
    (IsIncAge /\ ~call.fail /\ Cardinality(MatchingIndexes(call.before, call.filter)) = 1) =>
        /\ call.result.ok
        /\ call.result.value.age =
              call.before[call.chosen][K_age].v + call.updates[K_inc].v[K_age].v
        /\ call.result.value.updated_at > ToChrono(call.before[call.chosen][K_updated_at])

----------------------------------------------------------------------------
(* list over a collection larger than the default limit *)

MaxListed == 1002

\* the sizes of the batches inserted
BatchSizes == {250, 501}

\* the n-th generated user: generate_nanoid() and a unique username
NewUser(n, t) ==
    [id |-> "id" \o ToString(n), username |-> "username_" \o ToString(n),
     age |-> n % 3, address |-> MockAddress, updated_at |-> t]

\* the options a caller may pass to list
ListOptionsSet ==
    {Nothing,
     Some([limit |-> Nothing, skip |-> Nothing, sort |-> Nothing]),
     Some([limit |-> Some(2), skip |-> Some(1), sort |-> Nothing]),
     Some([limit |-> Nothing, skip |-> Nothing, sort |-> Some(Doc1(K_age, BInt(1)))])}

ListFilters == {Nothing, Some(EmptyDoc), Some(Doc1(K_age, BInt(0)))}

\* bulk_insert of a batch of n generated users
InsertBatch(n, fail) ==
    /\ Len(collection) + n <= MaxListed
    /\ BulkInsert([j \in 1..n |-> NewUser(Len(collection) + j, now)], fail)

InitList ==
    /\ ReadyConn
    /\ collection = <<>>
    /\ now = 1
    /\ call = NoCall
    /\ catalog = EmptyCatalog

NextList ==
    \/ \E n \in BatchSizes, fail \in BOOLEAN : InsertBatch(n, fail)
    \/ \E filter \in ListFilters, options \in ListOptionsSet, fail \in BOOLEAN :
          List(filter, options, fail)

SpecList == InitList /\ [][NextList]_vars

\* C2: a list call whose limit is unset (no options, or options without a
\* limit) returns at most the default limit of records.
C2_DefaultLimit ==
    (/\ call.op = "list"
     /\ call.result.ok
     /\ (~IsSome(call.options) \/ ~IsSome(Unwrap(call.options).limit)))
        => Len(call.result.value) <= DefaultLimit

----------------------------------------------------------------------------
(* save, read_by_id, delete, bulk_delete, count and list over a small collection *)

\* the filters a caller may pass: any filter of Filters, or the _id of a user
StoreFilters == Filters \cup {Doc1(K_id, BStr(id)) : id \in Ids}

\* the options a caller may pass to list: none, or the second page of size one
StoreListOptions ==
    {Nothing, Some([limit |-> Some(1), skip |-> Some(1), sort |-> Nothing])}

InitStore ==
    /\ ReadyConn
    /\ collection = <<>>
    /\ now \in 1..MaxTime
    /\ call = NoCall
    /\ catalog = UserCatalog

NextStore ==
    \/ \E r \in Records(now), fail \in BOOLEAN : Save(r, fail)
    \/ \E id \in Ids, fail \in BOOLEAN, i \in 0..MaxDocs : ReadById(id, fail, i)
    \/ \E filter \in StoreFilters, fail \in BOOLEAN, i \in 0..MaxDocs : Delete(filter, fail, i)
    \/ \E filter \in StoreFilters, fail \in BOOLEAN : BulkDelete(filter, fail)
    \/ \E filter \in {Nothing} \cup {Some(f) : f \in StoreFilters}, fail \in BOOLEAN :
          Count(filter, fail)
    \/ \E filter \in StoreFilters, options \in StoreListOptions, fail \in BOOLEAN :
          List(Some(filter), options, fail)

SpecStore == InitStore /\ [][NextStore]_vars

\* the record with its timestamp cut down to whole milliseconds
Truncated(r) ==
    [r EXCEPT !.updated_at = (r.updated_at \div TicksPerMilli) * TicksPerMilli]

\* a successful save of a record is followed at once by a read_by_id of its
\* id that the store answers
SaveThenReadById ==
    /\ call.op = "save"
    /\ call.result.ok
    /\ call'.op = "read_by_id"
    /\ call'.filter = Doc1(K_id, BStr(call.record.id))
    /\ ~call'.fail

\* C11 as stated: a successful save(R) returns a record equal to R, and a
\* read_by_id(R.id) that follows it returns a record equal to R.
C11_RoundTrip ==
    /\ []((call.op = "save" /\ call.result.ok) => call.result.value = call.record)
    /\ [][SaveThenReadById => call'.result = Ok(call.record)]_vars

\* C11 amended: a successful save(R) returns a record equal to R, and a
\* read_by_id(R.id) that follows it returns R with its timestamp cut down to
\* whole milliseconds, which is R itself when the timestamp of R is a whole
\* number of milliseconds.
C11_RoundTripToMillis ==
    /\ []((call.op = "save" /\ call.result.ok) => call.result.value = call.record)
    /\ [][SaveThenReadById =>
            /\ call'.result = Ok(Truncated(call.record))
            /\ (call.record.updated_at % TicksPerMilli = 0) => call'.result = Ok(call.record)
         ]_vars

\* read_by_id has returned a record saved with a timestamp between two milliseconds
C11_Witness ==
    /\ call.op = "read_by_id"
    /\ call.result.ok
    /\ call.result.value.updated_at % TicksPerMilli = 0
    /\ \E r \in Records(now) :
          /\ r.updated_at % TicksPerMilli # 0
          /\ call.before[call.chosen] = Encode(r)
          /\ call.result.value = Truncated(r)

----------------------------------------------------------------------------
(* Every client api method against a store that may reject the request *)

\* a user built before the calls, at time 0
ApiUser(id, username) ==
    [id |-> id, username |-> username, age |-> 0, address |-> MockAddress, updated_at |-> 0]

\* the records a caller may save
ApiRecords == {ApiUser("u1", "a"), ApiUser("u2", "a"), ApiUser("u2", "b")}

\* the batches a caller may pass to bulk_insert
ApiBatches ==
    {<<>>, <<ApiUser("u1", "a"), ApiUser("u2", "b")>>,
     <<ApiUser("u2", "a"), ApiUser("u1", "a")>>}

ApiFilters == {EmptyDoc, Doc1(K_id, BStr("u1"))}

\* the update descriptions a caller may pass to update and bulk_update
ApiUpdates ==
    {Doc1(K_username, BStr("b")),
     Doc1(K_inc, BDoc(Doc1(K_age, BInt(1)))),
     EmptyDoc,
     Insert(Doc1(K_age, BInt(1)), K_inc, BDoc(Doc1(K_age, BInt(1))))}

\* the pipelines a caller may pass to aggregate
ApiPipelines ==
    {<<>>, <<Match(Doc1(K_username, BStr("b")))>>, <<Limit(0)>>,
     <<Project(Doc1(K_username, BInt(1)))>>}

\* the index models a caller may pass to create_indexes
ApiIndexes ==
    {<<IndexModel(K_username, TRUE)>>, <<IndexModel(K_username, FALSE)>>,
     <<IndexModel(K_age, FALSE)>>}

InitApi ==
    /\ ReadyConn
    /\ collection = <<>>
    /\ now \in 1..MaxTime
    /\ call = NoCall
    /\ catalog = UserCatalog

NextApi ==
    \/ \E r \in ApiRecords, fail \in BOOLEAN : Save(r, fail)
    \/ \E records \in ApiBatches, fail \in BOOLEAN : BulkInsert(records, fail)
    \/ \E filter \in ApiFilters, fail \in BOOLEAN : List(Some(filter), Nothing, fail)
    \/ \E filter \in ApiFilters, updates \in ApiUpdates, fail \in BOOLEAN, i \in 0..MaxDocs :
          Update(filter, updates, fail, i)
    \/ \E filter \in ApiFilters, updates \in ApiUpdates, fail \in BOOLEAN :
          BulkUpdate(filter, updates, fail)
    \/ \E filter \in ApiFilters, fail \in BOOLEAN, i \in 0..MaxDocs : Delete(filter, fail, i)
    \/ \E filter \in ApiFilters, fail \in BOOLEAN : BulkDelete(filter, fail)
    \/ \E filter \in {Nothing, Some(Doc1(K_id, BStr("u1")))}, fail \in BOOLEAN :
          Count(filter, fail)
    \/ \E pipeline \in ApiPipelines, fail \in BOOLEAN, broken \in 0..1 :
          Aggregate(pipeline, fail, broken)
    \/ \E options \in ApiIndexes, fail \in BOOLEAN : CreateIndexes(options, fail)

SpecApi == InitApi /\ [][NextApi]_vars

\* the filters { "_id": id }
IdFilters == {Doc1(K_id, BStr(id)) : id \in Ids}

\* a delete by id that returned success is followed at once by a read_by_id
\* of that id
DeleteThenReadById ==
    /\ call.op = "delete"
    /\ call.filter \in IdFilters
    /\ call.result.ok
    /\ call'.op = "read_by_id"
    /\ call'.filter = call.filter

\* C13: a delete by id that the store carries out returns success, whether or
\* not a document has that id, and a read_by_id of that id that follows it
\* returns NotFound.
C13_DeleteThenNotFound ==
    /\ []((call.op = "delete" /\ call.filter \in IdFilters /\ ~call.fail) => call.result.ok)
    /\ [][DeleteThenReadById =>
            call'.result = [ok |-> FALSE, kind |-> "NotFound", name |-> "users"]]_vars

\* delete by id has removed the document with that id and left another one
C13_Witness ==
    /\ call.op = "delete"
    /\ call.filter \in IdFilters
    /\ call.result.ok
    /\ call.result.value.deleted_count = 1
    /\ Len(call.before) = 2
    /\ Len(collection) = 1

\* C14: delete removes one matching document, the one the store picks, when
\* some document matches and the store carries the request out, and nothing
\* otherwise; bulk_delete removes every matching document; every other
\* document stays as it was, in its place; both return success when the
\* store answers, also when nothing matches.
C14_DeleteFrame ==
    /\ call.op = "delete" =>
          /\ \/ collection = call.before
             \/ \E i \in MatchingIndexes(call.before, call.filter) :
                   collection = SubSeq(call.before, 1, i - 1)
                                   \o SubSeq(call.before, i + 1, Len(call.before))
          /\ (~call.fail /\ MatchingIndexes(call.before, call.filter) # {})
                => Len(collection) = Len(call.before) - 1
          /\ ~call.fail => call.result.ok
    /\ call.op = "bulk_delete" =>
          /\ ~call.fail =>
                /\ MatchingIndexes(collection, call.filter) = {}
                /\ collection = SelectSeq(call.before, LAMBDA d : ~Matches(d, call.filter))
                /\ call.result.ok
          /\ call.fail => collection = call.before

\* delete has removed one of two matching documents
C14_Witness ==
    /\ call.op = "delete"
    /\ Cardinality(MatchingIndexes(call.before, call.filter)) = 2
    /\ Len(collection) = 1
    /\ call.result.ok

\* a bulk_delete that returned success is followed at once by a list with the
\* same filter and no options
BulkDeleteThenList ==
    /\ call.op = "bulk_delete"
    /\ call.result.ok
    /\ call'.op = "list"
    /\ call'.filter = Some(call.filter)
    /\ call'.options = Nothing

\* C15: a list with no options that follows a successful bulk_delete with
\* the same filter returns the empty list when the store answers it, and
\* never a record.
C15_BulkDeleteThenListEmpty ==
    [][BulkDeleteThenList =>
          /\ ~call'.fail => call'.result = [ok |-> TRUE, value |-> <<>>]
          /\ call'.result.ok => call'.result.value = <<>>]_vars

\* bulk_delete has removed two documents and left none
C15_Witness ==
    /\ call.op = "bulk_delete"
    /\ call.result.ok
    /\ call.result.value.deleted_count = 2
    /\ collection = <<>>

\* the error kind of each operation (MongooseError)
OwnKind ==
    [save |-> "Insert", bulk_insert |-> "BulkInsert", list |-> "List",
     update |-> "Update", bulk_update |-> "BulkUpdate", delete |-> "Delete",
     bulk_delete |-> "BulkDelete", count |-> "Count", aggregate |-> "Aggregate",
     create_indexes |-> "CreateIndex"]

\* the store rejects the request of the call: it fails, or it refuses a
\* duplicate key, an update document or a pipeline stage
Rejected ==
    \/ call.fail
    \/ call.op = "save" /\ ~Unique(call.before, 0, Encode(call.record))
    \/ call.op \in {"update", "bulk_update"} /\ ~ValidUpdate(call.update)
    \/ call.op = "aggregate" /\ \E n \in 1..Len(call.pipeline) :
                                   ~ValidStage(create_pipeline(call.pipeline)[n])

\* C12: an operation whose request the store rejects returns one error of the
\* operation's own kind, carrying the record name, and no success value; an
\* error of another kind is returned only by update, as NotFound, when no
\* document matches.
C12_OwnErrorKind ==
    call.op \in DOMAIN OwnKind =>
        /\ Rejected =>
              call.result = [ok |-> FALSE, kind |-> OwnKind[call.op], name |-> "users"]
        /\ ~call.result.ok =>
              /\ call.result.name = "users"
              /\ \/ call.result.kind = OwnKind[call.op]
                 \/ /\ call.op = "update"
                    /\ call.result.kind = "NotFound"
                    /\ MatchingIndexes(call.before, call.filter) = {}

\* the store fails while bulk_delete has two documents to remove
C12_Witness ==
    /\ call.op = "bulk_delete"
    /\ call.fail
    /\ Len(call.before) = 2
    /\ call.filter = EmptyDoc
    /\ ~call.result.ok

\* the document new is the document old after the update document: every
\* field of $set has its new value, every field of $inc is raised by its
\* operand, and every other field is as it was
AppliedTo(old, new, update) ==
    /\ DOMAIN new = (DOMAIN old) \cup Paths(update, K_set) \cup Paths(update, K_inc)
    /\ \A key \in Paths(update, K_set) : new[key] = update[K_set].v[key]
    /\ \A key \in Paths(update, K_inc) :
          new[key] = [k |-> "int",
                      v |-> (IF key \in DOMAIN old THEN old[key].v ELSE 0)
                               + update[K_inc].v[key].v]
    /\ \A key \in (DOMAIN old) \ (Paths(update, K_set) \cup Paths(update, K_inc)) :
          new[key] = old[key]

\* C16: a bulk_update that returns success has applied the normalised
\* update, with updated_at set to the time of the call, to every document
\* matching the filter and to no other, and returns the numbers of documents
\* matched and modified; when no document matches and the store accepts the
\* request, it returns success with both counts zero.
C16_BulkUpdateAll ==
    call.op = "bulk_update" =>
        LET matching == MatchingIndexes(call.before, call.filter) IN
        /\ call.update[K_set].v[K_updated_at] =
              [k |-> "date", v |-> call.at \div TicksPerMilli]
        /\ call.result.ok =>
              /\ Len(collection) = Len(call.before)
              /\ \A i \in 1..Len(collection) :
                    IF i \in matching
                    THEN AppliedTo(call.before[i], collection[i], call.update)
                    ELSE collection[i] = call.before[i]
              /\ call.result.value.matched_count = Cardinality(matching)
              /\ call.result.value.modified_count =
                    Cardinality({i \in matching : collection[i] # call.before[i]})
        /\ (~call.fail /\ ValidUpdate(call.update) /\ matching = {}) =>
              /\ call.result = [ok |-> TRUE,
                                value |-> [matched_count |-> 0, modified_count |-> 0]]
              /\ collection = call.before

\* bulk_update has raised the age and set the timestamp of two documents
C16_Witness ==
    /\ call.op = "bulk_update"
    /\ call.result.ok
    /\ call.result.value.modified_count = 2
    /\ K_inc \in DOMAIN call.update
    /\ \A i \in 1..2 : collection[i][K_updated_at] # call.before[i][K_updated_at]

\* the number of documents of the collection that have the fields of the filter
Counted(coll, filter) ==
    Cardinality({i \in 1..Len(coll) :
                    \A key \in DOMAIN filter :
                        key \in DOMAIN coll[i] /\ coll[i][key] = filter[key]})

\* a successful save is followed at once by a count, which the store answers,
\* of the documents with the username of the saved record
SaveThenCountUsername ==
    /\ call.op = "save"
    /\ call.result.ok
    /\ call'.op = "count"
    /\ call'.filter = Some(Doc1(K_username, BStr(call.record.username)))
    /\ ~call'.fail

\* C17: a count that the store answers returns the number of documents that
\* match the filter, and the number of all documents when the filter is
\* unset; a count filtered on the username of a record just saved returns 1.
C17_Count ==
    /\ []((call.op = "count" /\ ~call.fail) =>
             call.result = [ok |-> TRUE,
                            value |-> IF call.filter = <<>> THEN Len(collection)
                                      ELSE Counted(collection, call.filter[1])])
    /\ [][SaveThenCountUsername => call'.result = [ok |-> TRUE, value |-> 1]]_vars

\* count by username has found one of two documents
C17_Witness ==
    /\ call.op = "count"
    /\ call.filter = Some(Doc1(K_username, BStr("b")))
    /\ call.result = [ok |-> TRUE, value |-> 1]
    /\ Len(collection) = 2

\* C19: list returns a list of records or the List error, never NotFound;
\* when the store answers and no document matches the filter, it returns
\* success with the empty list.
C19_ListNeverNotFound ==
    call.op = "list" =>
        /\ call.result.ok \/ call.result = [ok |-> FALSE, kind |-> "List", name |-> "users"]
        /\ (~call.fail /\ Counted(collection, call.filter[1]) = 0) =>
              call.result = [ok |-> TRUE, value |-> <<>>]

\* list has found no document for its filter in a collection that has one
C19_Witness ==
    /\ call.op = "list"
    /\ ~call.fail
    /\ Len(collection) > 0
    /\ call.result = [ok |-> TRUE, value |-> <<>>]

----------------------------------------------------------------------------
(* aggregate over users of which some cannot be decoded *)

\* the typed stages a caller may put in a pipeline over users
AggStages ==
    {Match(Doc1(K_username, BStr("b"))),
     Limit(1),
     Limit(0),
     Sort(Doc1(K_age, BInt(1))),
     Project(Doc1(K_username, BInt(1)))}

InitAgg ==
    /\ ReadyConn
    /\ collection = <<>>
    /\ now = 1
    /\ call = NoCall
    /\ catalog = UserCatalog

NextAgg ==
    \/ \E r \in ApiRecords, fail \in BOOLEAN : Save(r, fail)
    \/ \E filter \in IdFilters, fail \in BOOLEAN :
          BulkUpdate(filter, Doc1(K_inc, BDoc(Doc1(K_age, BInt(0 - 1)))), fail)
    \/ \E pipeline \in SeqsUpTo(AggStages, 2), fail \in BOOLEAN, broken \in 0..MaxDocs :
          Aggregate(pipeline, fail, broken)

SpecAgg == InitAgg /\ [][NextAgg]_vars

\* the item is an error of the cursor or a document that is not a user
BadItem(item) == ~item.ok \/ ~Decodable(item.document)

\* C18: when an item of the cursor is an error or cannot be decoded,
\* aggregate returns the Aggregate error and no record, whatever was decoded
\* before; when every item decodes, it returns all of them in order.
C18_AggregateFailFast ==
    call.op = "aggregate" =>
        /\ (\E n \in 1..Len(call.items) : BadItem(call.items[n])) =>
              call.result = [ok |-> FALSE, kind |-> "Aggregate", name |-> "users"]
        /\ call.result.ok =>
              /\ Len(call.result.value) = Len(call.items)
              /\ \A n \in 1..Len(call.items) :
                    call.result.value[n] = Decode(call.items[n].document)

\* the first item decodes and the second does not
C18_Witness ==
    /\ call.op = "aggregate"
    /\ Len(call.items) = 2
    /\ ~BadItem(call.items[1])
    /\ call.items[2].ok
    /\ ~Decodable(call.items[2].document)
    /\ ~call.result.ok

\* C26: aggregate over typed stages returns what aggregate_raw returns over
\* their translation by create_pipeline, for the same collection and the same
\* behaviour of the store: the same records in the same order, or the same
\* error.
C26_AggregateIsRawOfTranslation ==
    call.op = "aggregate" =>
        call.result = aggregate_raw(RecordName, "User", call.before,
                                    create_pipeline(call.pipeline),
                                    call.fail, call.broken, catalog)

\* two different stages, whose order matters, over two users
C26_Witness ==
    /\ call.op = "aggregate"
    /\ Len(call.pipeline) = 2
    /\ call.pipeline[1].kind = "Limit"
    /\ call.pipeline[2].kind = "Match"
    /\ Len(call.before) = 2
    /\ call.result = Ok(<<>>)
    /\ Len(RunPipeline(call.before,
                       create_pipeline(<<call.pipeline[2], call.pipeline[1]>>),
                       catalog)) = 1

----------------------------------------------------------------------------
(* create_view, called again and again *)

\* the names of the view types, the sources and the raw pipelines of the callers
ViewNames == {"user_posts", "adults"}
ViewSources == {"users", "posts"}
ViewPipelines ==
    {<<Doc1(K_match, BDoc(Doc1(K_age, BInt(1))))>>,
     <<Doc1(K_lookup,
            BDoc(Insert(Insert(Insert(Insert(EmptyDoc,
                 <<"from">>, BStr("posts")),
                 <<"localField">>, BStr("_id")),
                 <<"foreignField">>, BStr("user")),
                 <<"as">>, BStr("posts")))),
       Doc1(K_match, BDoc(EmptyDoc))>>}

InitView ==
    /\ ReadyConn
    /\ collection = <<>>
    /\ now = 1
    /\ call = NoCall
    /\ catalog = UserCatalog

NextView ==
    \E name \in ViewNames, source \in ViewSources, pipeline \in ViewPipelines,
       fail \in BOOLEAN, lenient \in BOOLEAN :
        CreateView(name, source, pipeline, fail, lenient)

SpecView == InitView /\ [][NextView]_vars

\* a create_view that reported success is followed at once by a create_view
\* with the same name, source and pipeline, which reaches the store
CreateViewTwice ==
    /\ call.op = "create_view"
    /\ call.result
    /\ call'.op = "create_view"
    /\ call'.view = call.view
    /\ ~call'.fail

\* C20 as stated: a create_view for a view that already exists, with the same
\* source and pipeline, reports success.
C20_ExistingViewIsSuccess ==
    [][CreateViewTwice => call'.result = TRUE]_vars

\* C20 amended: create_view returns true exactly when the store accepts the
\* request, and the view is then declared; it returns false and changes
\* nothing when the store refuses, as the store does for a name already in
\* use unless it lets an identical declaration pass; a first declaration
\* that reaches the store returns true.
C20_ExistingViewRefused ==
    /\ [](call.op = "create_view" =>
            /\ call.result \in BOOLEAN
            /\ call.result => call.view \in catalog.views
            /\ ~call.result => catalog = call.before
            /\ (~call.fail /\ \A view \in call.before.views : view.name # call.view.name)
                  => call.result
            /\ ((\E view \in call.before.views : view.name = call.view.name)
                   /\ ~call.lenient) => ~call.result)
    /\ [][(CreateViewTwice /\ ~call'.lenient) =>
            (call'.result = FALSE /\ catalog' = catalog)]_vars

\* the store has refused the declaration of a view that exists as declared
C20_Witness ==
    /\ call.op = "create_view"
    /\ ~call.fail
    /\ call.view \in call.before.views
    /\ call.result = FALSE

----------------------------------------------------------------------------
(* update of fields inside the sub-document of a record *)

K_number == <<"address", ".", "address">>
K_zip == <<"address", ".", "zip">>
K_username_city == <<"username", ".", "city">>
K_updated_at_x == <<"updated_at", ".", "x">>

\* the update descriptions with one dotted key (update_sub_document), among
\* them a path through a string, a path below the timestamp, a value of the
\* wrong type and a field the record does not have
SubUpdates ==
    {Doc1(K_city, BStr("c1")),
     Doc1(K_number, BStr("x")),
     Doc1(K_zip, BStr("z")),
     Doc1(K_username_city, BStr("c1")),
     Doc1(K_updated_at_x, BInt(1))}

SubRecords == {ApiUser("u1", "a"), ApiUser("u2", "b")}

InitSub ==
    /\ ReadyConn
    /\ collection = <<>>
    /\ now \in 1..MaxTime
    /\ call = NoCall
    /\ catalog = UserCatalog

NextSub ==
    \/ \E r \in SubRecords, fail \in BOOLEAN : Save(r, fail)
    \/ \E filter \in IdFilters, updates \in SubUpdates, fail \in BOOLEAN, i \in 0..MaxDocs :
          Update(filter, updates, fail, i)

SpecSub == InitSub /\ [][NextSub]_vars

\* the caller's update description is one dotted key that is not an operator
IsDottedSet ==
    /\ IsUpdate
    /\ Cardinality(DOMAIN call.updates) = 1
    /\ \A key \in DOMAIN call.updates : ~StartsWith(key, "$") /\ Len(Segments(key)) = 2

\* document new is document old but for the nested field and updated_at
OnlyNestedChanged(old, new, outer, inner) ==
    /\ DOMAIN new = DOMAIN old
    /\ \A key \in DOMAIN old : key \notin {outer, K_updated_at} => new[key] = old[key]
    /\ new[outer].k = "doc"
    /\ DOMAIN new[outer].v = DOMAIN old[outer].v \cup {inner}
    /\ \A key \in DOMAIN old[outer].v : key # inner => new[outer].v[key] = old[outer].v[key]

\* C23: when update with a single dotted key returns a record, the record is
\* the stored document, in which exactly that nested field has the supplied
\* value: every other field of the document apart from updated_at, and every
\* other document, is as before the call.
C23_DottedKeySetsNestedField ==
    (IsDottedSet /\ call.result.ok) =>
        \A key \in DOMAIN call.updates :
            LET outer == Segments(key)[1]
                inner == Segments(key)[2]
                old == call.before[call.chosen]
                new == collection[call.chosen]
            IN  /\ Len(collection) = Len(call.before)
                /\ \A j \in 1..Len(collection) :
                      j # call.chosen => collection[j] = call.before[j]
                /\ OnlyNestedChanged(old, new, outer, inner)
                /\ new[outer].v[inner] = call.updates[key]
                /\ call.result.value = Decode(new)
                /\ call.result.value.address.city =
                      IF key = K_city THEN call.updates[key].v
                      ELSE Decode(old).address.city

\* update_sub_document: the city of one of two users has been replaced
C23_Witness ==
    /\ IsDottedSet
    /\ call.result.ok
    /\ K_city \in DOMAIN call.updates
    /\ Len(collection) = 2
    /\ call.result.value.address = [address |-> 0, city |-> "c1"]
    /\ Decode(call.before[call.chosen]).address.city = "c0"

----------------------------------------------------------------------------
(* list with a sort and a limit (pagination) *)

SortRecords == {r \in Records(0) : (r.id = "u1") = (r.username = "a")}

\* the options of the pagination test for each limit, with and without a skip of 0
SortOptions ==
    {Some([limit |-> Some(n), skip |-> skip, sort |-> Some(Doc1(K_age, BInt(1)))]) :
        n \in 0..MaxDocs, skip \in {Nothing, Some(0)}}

InitSort ==
    /\ ReadyConn
    /\ collection = <<>>
    /\ now \in 1..MaxTime
    /\ call = NoCall
    /\ catalog = UserCatalog

NextSort ==
    \/ \E r \in SortRecords, fail \in BOOLEAN : Save(r, fail)
    \/ \E filter \in IdFilters, fail \in BOOLEAN :
          BulkUpdate(filter, Doc1(K_inc, BDoc(Doc1(K_age, BInt(0 - 1)))), fail)
    \/ \E filter \in {Nothing, Some(Doc1(K_username, BStr("a")))}, options \in SortOptions,
          fail \in BOOLEAN : List(filter, options, fail)

SpecSort == InitSort /\ [][NextSort]_vars

\* a list call with sort = age ascending and a limit that returned success
IsSortedList ==
    /\ call.op = "list"
    /\ call.result.ok
    /\ IsSome(call.options)
    /\ IsSome(Unwrap(call.options).limit)
    /\ Unwrap(call.options).sort = Some(Doc1(K_age, BInt(1)))

ListLimit == Unwrap(Unwrap(call.options).limit)

\* the documents of the collection that match the filter of the call
ListMatching ==
    {i \in 1..Len(call.before) :
        Matches(call.before[i], IF IsSome(call.filter) THEN Unwrap(call.filter) ELSE EmptyDoc)}

NonDecreasingAge(records) ==
    \A m \in 1..Len(records) : \A n \in 1..Len(records) :
        m < n => records[m].age <= records[n].age

----------------------------------------------------------------------------
(* aggregate over posts joined with their user (match_aggregate) *)

\* Post::name() and User::name(), as the tokens of the names
PostName == <<"posts">>
UserName == <<"users">>

\* mock::post(user_id)
JoinPosts == [id : {"p1", "p2"}, user : Ids, updated_at : {0}]

\* the post as the document insert_one stores
EncodePost(p) ==
    Insert(Insert(Insert(EmptyDoc,
        K_id, BStr(p.id)),
        K_user, BStr(p.user)),
        K_updated_at, FromChrono(p.updated_at))

\* Post::save
SavePost(p, fail) ==
    /\ pool.state = "ready"
    /\ Len(collection) < MaxDocs
    /\ collection' = InsertedOne(collection, EncodePost(p), fail)
    /\ call' = [op |-> "save", record |-> p, fail |-> fail, at |-> now,
                before |-> collection,
                result |-> IF fail \/ ~Unique(collection, 0, EncodePost(p))
                           THEN ErrOf(PostName, "Insert") ELSE Ok(p)]
    /\ UNCHANGED <<now, pool, pc, got, catalog>>

\* the users collections the posts may be joined with: none, one or two
\* users, and a user whose age a bulk_update has decremented below zero
JoinUsers ==
    {<<>>,
     <<Encode(ApiUser("u1", "a"))>>,
     <<Encode(ApiUser("u1", "a")), Encode(ApiUser("u2", "b"))>>,
     <<Insert(Encode(ApiUser("u1", "a")), K_age, BInt(0 - 1)), Encode(ApiUser("u2", "b"))>>}

\* the pipeline of match_aggregate for user U, and the same without $unwind
JoinPipeline(U) ==
    <<Match(Doc1(K_user, BStr(U))), Lookup(UserName, K_user, K_id, K_user),
      Unwind(<<"$", "user">>)>>

JoinPipelines ==
    {JoinPipeline(U) : U \in Ids} \cup {SubSeq(JoinPipeline(U), 1, 2) : U \in Ids}

InitJoin ==
    /\ ReadyConn
    /\ collection = <<>>
    /\ now = 1
    /\ call = NoCall
    /\ catalog \in {[views |-> {}, indexes |-> {},
                      others |-> <<[name |-> UserName, docs |-> users]>>] :
                        users \in JoinUsers}

NextJoin ==
    \/ \E p \in JoinPosts, fail \in BOOLEAN : SavePost(p, fail)
    \/ \E pipeline \in JoinPipelines, fail \in BOOLEAN, broken \in 0..MaxDocs :
          AggregateAs(PostName, "PopulatedPost", pipeline, fail, broken)

SpecJoin == InitJoin /\ [][NextJoin]_vars

\* the store answered the aggregate call and its cursor did not break
AggregateAnswered ==
    /\ call.op = "aggregate"
    /\ ~call.fail
    /\ call.broken = 0 \/ call.broken > Len(call.items)

\* the documents of the users collection whose _id is U
UsersOf(U) == SelectSeq(catalog.others[1].docs, LAMBDA d : Get(d, K_id) = BStr(U))

\* the posts of the collection whose user field is U
PostsOf(U) == SelectSeq(call.before, LAMBDA d : Get(d, K_user) = BStr(U))

\* C25, as stated: for a user U that exists and n posts of U, the pipeline
\* [Match(user = U), Lookup(users, user, _id, user), Unwind("$user")] over
\* posts returns n joined records, each with user.id = U; without the
\* Unwind the looked-up field is an array.
C25_JoinReturnsAll ==
    \A U \in Ids :
        (AggregateAnswered /\ UsersOf(U) # <<>>) =>
            /\ call.pipeline = JoinPipeline(U) =>
                  /\ call.result.ok
                  /\ Len(call.result.value) = Len(PostsOf(U))
                  /\ \A n \in 1..Len(call.result.value) : call.result.value[n].user.id = U
            /\ call.pipeline = SubSeq(JoinPipeline(U), 1, 2) =>
                  \A n \in 1..Len(call.items) : call.items[n].document[K_user].k = "arr"

\* C25, amended: the same when the document of U decodes into the record
\* type of the joined field; when it does not and U has a post, aggregate
\* returns the Aggregate error.
C25_JoinReturnsAllDecodable ==
    \A U \in Ids :
        (AggregateAnswered /\ UsersOf(U) # <<>>) =>
            /\ (call.pipeline = JoinPipeline(U) /\ Decodable(UsersOf(U)[1])) =>
                  /\ call.result.ok
                  /\ Len(call.result.value) = Len(PostsOf(U))
                  /\ \A n \in 1..Len(call.result.value) :
                        /\ call.result.value[n].user = Decode(UsersOf(U)[1])
                        /\ call.result.value[n].id = PostsOf(U)[n][K_id].v
            /\ (call.pipeline = JoinPipeline(U) /\ ~Decodable(UsersOf(U)[1])
                   /\ PostsOf(U) # <<>>) =>
                  call.result = [ok |-> FALSE, kind |-> "Aggregate", name |-> PostName]
            /\ call.pipeline = SubSeq(JoinPipeline(U), 1, 2) =>
                  /\ Len(call.items) = Len(PostsOf(U))
                  /\ \A n \in 1..Len(call.items) :
                        call.items[n].document[K_user] = BArr(<<BDoc(UsersOf(U)[1])>>)

\* one of the two posts is of user U and comes back joined with U
C25_Witness ==
    /\ AggregateAnswered
    /\ call.pipeline = JoinPipeline("u2")
    /\ Len(call.before) = 2
    /\ Len(PostsOf("u2")) = 1
    /\ call.result.ok
    /\ Len(call.result.value) = 1
    /\ call.result.value[1].user.id = "u2"

----------------------------------------------------------------------------
(* list over a cursor with items that cannot be fetched or decoded *)

CursorOptions ==
    {Nothing, Some([limit |-> Nothing, skip |-> Nothing, sort |-> Some(Doc1(K_age, BInt(1)))])}

InitCursor ==
    /\ ReadyConn
    /\ collection = <<>>
    /\ now \in 1..MaxTime
    /\ call = NoCall
    /\ catalog = UserCatalog

NextCursor ==
    \/ \E r \in SortRecords, fail \in BOOLEAN : Save(r, fail)
    \/ \E filter \in IdFilters, fail \in BOOLEAN :
          BulkUpdate(filter, Doc1(K_inc, BDoc(Doc1(K_age, BInt(0 - 1)))), fail)
    \/ \E filter \in {Nothing, Some(Doc1(K_username, BStr("a")))}, options \in CursorOptions,
          fail \in BOOLEAN, broken \in 0..MaxDocs : ListCursor(filter, options, fail, broken)

SpecCursor == InitCursor /\ [][NextCursor]_vars

\* the item was fetched and decodes into the record type
GoodItem(item) == item.ok /\ Decodable(item.document)

\* the records of the items that were read successfully, in cursor order
RECURSIVE ReadSuccessfully(_)
ReadSuccessfully(items) ==
    IF items = <<>> THEN <<>>
    ELSE (IF GoodItem(Head(items)) THEN <<Decode(Head(items).document)>> ELSE <<>>)
            \o ReadSuccessfully(Tail(items))

\* C27: once find has been accepted, list returns success with exactly the
\* items that were fetched and decoded, in cursor order; an item that fails
\* is skipped.
C27_ListSkipsBadItems ==
    (call.op = "list" /\ ~call.fail) =>
        /\ call.result.ok
        /\ call.result.value = ReadSuccessfully(call.items)

\* the first item cannot be decoded and the second is returned: the result
\* is a strict subset of the matching documents
C27_Witness ==
    /\ call.op = "list"
    /\ ~call.fail
    /\ Len(call.items) = 2
    /\ ~GoodItem(call.items[1])
    /\ GoodItem(call.items[2])
    /\ call.result = Ok(<<Decode(call.items[2].document)>>)
    /\ Cardinality(ListMatching) = 2

----------------------------------------------------------------------------
(* The operations that only read, among operations that write *)

ReadPipelines ==
    {<<Match(Doc1(K_username, BStr("a")))>>,
     <<Sort(Doc1(K_age, BInt(1))), Limit(1)>>,
     <<Project(Doc1(K_username, BInt(1)))>>,
     <<Limit(0)>>}

InitRead ==
    /\ ReadyConn
    /\ collection = <<>>
    /\ now \in 1..MaxTime
    /\ call = NoCall
    /\ catalog = UserCatalog

NextRead ==
    \/ \E r \in SortRecords, fail \in BOOLEAN : Save(r, fail)
    \/ \E filter \in IdFilters, fail \in BOOLEAN :
          BulkUpdate(filter, Doc1(K_inc, BDoc(Doc1(K_age, BInt(0 - 1)))), fail)
    \/ \E filter \in IdFilters \cup {EmptyDoc}, fail \in BOOLEAN, i \in 0..MaxDocs :
          Read(filter, fail, i)
    \/ \E id \in Ids, fail \in BOOLEAN, i \in 0..MaxDocs : ReadById(id, fail, i)
    \/ \E filter \in {Nothing, Some(Doc1(K_username, BStr("a")))}, fail \in BOOLEAN,
          broken \in 0..1 : ListCursor(filter, Nothing, fail, broken)
    \/ \E filter \in {Nothing, Some(Doc1(K_username, BStr("a")))}, fail \in BOOLEAN :
          Count(filter, fail)
    \/ \E pipeline \in ReadPipelines, fail \in BOOLEAN, broken \in 0..1 :
          Aggregate(pipeline, fail, broken)

SpecRead == InitRead /\ [][NextRead]_vars

ReadOps == {"read", "read_by_id", "list", "count", "aggregate"}

\* C28: a call of read, read_by_id, list, count or aggregate leaves the
\* collection as it was, whether it returns a value or an error: the same
\* documents, in the same state, before and after the call.
C28_ReadsLeaveCollection ==
    [][call'.op \in ReadOps => collection' = collection]_vars

\* a read that found one of two users, both still stored
C28_Witness ==
    /\ call.op = "read"
    /\ Len(collection) = 2
    /\ call.before = collection
    /\ call.result.ok

----------------------------------------------------------------------------
(* updated_at under update and bulk_update *)

K_unset == <<"$", "unset">>

\* a time later than the clock ever shows
FutureTime == (MaxTime + 1) * TicksPerMilli

\* the records saved: built with Utc::now() or with a later updated_at
StampRecords(t) ==
    {[ApiUser("u1", "a") EXCEPT !.updated_at = at] : at \in {t, FutureTime}}
        \cup {[ApiUser("u2", "b") EXCEPT !.updated_at = t]}

\* update descriptions, among them those that address updated_at themselves
StampUpdates ==
    {Doc1(K_username, BStr("a")),
     Doc1(K_updated_at, BDate(0)),
     Doc1(K_set, BDoc(Doc1(K_updated_at, BDate(0)))),
     Doc1(K_unset, BDoc(Doc1(K_updated_at, BStr("")))),
     Doc1(K_inc, BDoc(Doc1(K_age, BInt(1))))}

InitStamp ==
    /\ ReadyConn
    /\ collection = <<>>
    /\ now = 1
    /\ call = NoCall
    /\ catalog = UserCatalog

NextStamp ==
    \/ Tick
    \/ \E r \in StampRecords(now) : Save(r, FALSE)
    \/ \E filter \in IdFilters, updates \in StampUpdates, fail \in BOOLEAN, i \in 0..MaxDocs :
          Update(filter, updates, fail, i)
    \/ \E filter \in {EmptyDoc, Doc1(K_id, BStr("u2"))}, updates \in StampUpdates,
          fail \in BOOLEAN : BulkUpdate(filter, updates, fail)

SpecStamp == InitStamp /\ [][NextStamp]_vars

\* the step is a call of update or bulk_update
UpdateStep == call'.op \in {"update", "bulk_update"} /\ Len(collection') = Len(collection)

\* C29, as stated: over update and bulk_update calls with any update
\* description, the stored updated_at of a document never decreases, and a
\* document the call modified carries the time of the call.
C29_UpdatedAtMonotone ==
    [][UpdateStep =>
         \A i \in 1..Len(collection) :
            /\ collection'[i][K_updated_at].v >= collection[i][K_updated_at].v
            /\ collection'[i] # collection[i] =>
                  collection'[i][K_updated_at] = FromChrono(now)
      ]_vars

\* C29, amended: a document the call modified carries the time of the call
\* in whole milliseconds, so the stored updated_at of a document that was
\* not later than the clock does not decrease.
C29_UpdatedAtIsCallTime ==
    [][UpdateStep =>
         \A i \in 1..Len(collection) :
            /\ collection[i][K_updated_at].v <= FromChrono(now).v =>
                  collection'[i][K_updated_at].v >= collection[i][K_updated_at].v
            /\ collection'[i] # collection[i] =>
                  collection'[i][K_updated_at] = FromChrono(now)
      ]_vars

\* a bulk_update that tried to set updated_at back has stamped both users
\* with its own, later time
C29_Witness ==
    /\ call.op = "bulk_update"
    /\ call.result.ok
    /\ K_set \in DOMAIN call.updates
    /\ Len(collection) = 2
    /\ \A i \in 1..2 :
          /\ collection[i][K_updated_at] = FromChrono(call.at)
          /\ call.before[i][K_updated_at].v < FromChrono(call.at).v

====
